---- MODULE Spec2Model ----
(***************************************************************************)
(* A model of the currency-conversion tool's data layer                    *)
(* (src/app/src/lib/api.ts): getCurrencies with its localStorage cache,    *)
(* convertOnce with its USD cross-rate fallback, and getTimeseries with    *)
(* its per-day fallback.  Upstream responses, the clock, the time zone and *)
(* the availability of Intl.DisplayNames are the environment.              *)
(***************************************************************************)
EXTENDS Integers, Sequences, FiniteSets

(***************************************************************************)
(* JavaScript numbers.  A number is a fraction [n, d] in lowest terms with *)
(* d > 0, or one of the three non-finite values, which have d = 0:         *)
(* n = 1 is Infinity, n = -1 is -Infinity and n = 0 is NaN.  Rounding of   *)
(* IEEE doubles is not modelled: arithmetic on finite values is exact.     *)
(***************************************************************************)
Abs(x) == IF x < 0 THEN -x ELSE x

Sign(x) == IF x > 0 THEN 1 ELSE IF x < 0 THEN -1 ELSE 0

RECURSIVE Gcd(_, _)
Gcd(a, b) == IF b = 0 THEN a ELSE Gcd(b, a % b)

Norm(n, d) ==
    IF d = 0 THEN [n |-> Sign(n), d |-> 0]
    ELSE LET s == IF d < 0 THEN -1 ELSE 1
             g == Gcd(Abs(n), Abs(d))
         IN [n |-> (s * n) \div g, d |-> (s * d) \div g]

Num(i) == [n |-> i, d |-> 1]

NaN == [n |-> 0, d |-> 0]

Infinity == [n |-> 1, d |-> 0]

\* Number.isFinite
IsFinite(x) == x.d # 0

\* the truthiness of a number: 0 and NaN are falsy
NumTruthy(x) == x.n # 0

Mul(x, y) == Norm(x.n * y.n, x.d * y.d)

Recip(x) ==
    IF x.n > 0 THEN [n |-> x.d, d |-> x.n]
    ELSE IF x.n < 0 THEN [n |-> -x.d, d |-> -x.n]
    ELSE IF x.d = 0 THEN NaN ELSE Infinity

\* the / of two numbers
Div(x, y) == Mul(x, Recip(y))

Neg(x) == [n |-> -x.n, d |-> x.d]

Add(x, y) ==
    IF x = NaN \/ y = NaN THEN NaN
    ELSE IF x.d = 0 /\ y.d = 0 THEN (IF x = y THEN x ELSE NaN)
    ELSE IF x.d = 0 THEN x
    ELSE IF y.d = 0 THEN y
    ELSE Norm(x.n * y.d + y.n * x.d, x.d * y.d)

Sub(x, y) == Add(x, Neg(y))

\* x < y; a comparison with NaN is false
Less(x, y) == x # NaN /\ y # NaN /\ x # y /\ Sub(x, y).n < 0

(***************************************************************************)
(* JavaScript strings are sequences of one-character strings.              *)
(***************************************************************************)
UpperAlpha ==
    << "A", "B", "C", "D", "E", "F", "G", "H", "I", "J", "K", "L", "M",
       "N", "O", "P", "Q", "R", "S", "T", "U", "V", "W", "X", "Y", "Z" >>

LowerAlpha ==
    << "a", "b", "c", "d", "e", "f", "g", "h", "i", "j", "k", "l", "m",
       "n", "o", "p", "q", "r", "s", "t", "u", "v", "w", "x", "y", "z" >>

Digits == << "0", "1", "2", "3", "4", "5", "6", "7", "8", "9" >>

Range(s) == {s[i] : i \in 1..Len(s)}

UpperLetters == Range(UpperAlpha)

LowerLetters == Range(LowerAlpha)

DigitChars == Range(Digits)

IsUpper(c) == c \in UpperLetters

IsLower(c) == c \in LowerLetters

IsSpace(c) == c \in {" ", "\t", "\n"}

UpperChar(c) ==
    IF IsLower(c) THEN UpperAlpha[CHOOSE i \in 1..26 : LowerAlpha[i] = c] ELSE c

\* String.prototype.toUpperCase
ToUpperCase(s) == [i \in 1..Len(s) |-> UpperChar(s[i])]

\* String.prototype.trim
Trim(s) ==
    LET keep == {i \in 1..Len(s) : ~IsSpace(s[i])}
    IN IF keep = {} THEN << >>
       ELSE LET lo == CHOOSE i \in keep : \A j \in keep : i <= j
                hi == CHOOSE i \in keep : \A j \in keep : j <= i
            IN SubSeq(s, lo, hi)

CodeMinLen == 3

CodeMaxLen == 5

\* /^[A-Z]{3,5}$/.test(s)
IsCode(s) ==
    /\ Len(s) >= CodeMinLen
    /\ Len(s) <= CodeMaxLen
    /\ \A i \in 1..Len(s) : IsUpper(s[i])

\* The collation rank of a character: spaces and punctuation, then digits,
\* then letters, a letter's case coming second.
CharRank(c) ==
    LET u == UpperChar(c)
    IN IF IsUpper(u) THEN 20 + (CHOOSE i \in 1..26 : UpperAlpha[i] = u)
       ELSE IF c \in DigitChars THEN 9 + (CHOOSE i \in 1..10 : Digits[i] = c)
       ELSE IF IsSpace(c) THEN 1 ELSE 2

RECURSIVE CmpRanks(_, _, _)
CmpRanks(a, b, i) ==
    IF i > Len(a) /\ i > Len(b) THEN 0
    ELSE IF i > Len(a) THEN -1
    ELSE IF i > Len(b) THEN 1
    ELSE IF CharRank(a[i]) < CharRank(b[i]) THEN -1
    ELSE IF CharRank(a[i]) > CharRank(b[i]) THEN 1
    ELSE CmpRanks(a, b, i + 1)

RECURSIVE CmpCase(_, _, _)
CmpCase(a, b, i) ==
    IF i > Len(a) THEN 0
    ELSE IF IsLower(a[i]) /\ IsUpper(b[i]) THEN -1
    ELSE IF IsUpper(a[i]) /\ IsLower(b[i]) THEN 1
    ELSE CmpCase(a, b, i + 1)

\* String.prototype.localeCompare: -1, 0 or 1
LocaleCompare(a, b) ==
    LET p == CmpRanks(a, b, 1)
    IN IF p # 0 THEN p ELSE CmpCase(a, b, 1)

(***************************************************************************)
(* JSON values, tagged by their type.  An object is the sequence of its    *)
(* properties in insertion order; Undef is what reading a missing property *)
(* gives.                                                                  *)
(***************************************************************************)
Undef == [t |-> "undef"]

JNull == [t |-> "null"]

JStr(s) == [t |-> "str", s |-> s]

JNum(x) == [t |-> "num", n |-> x]

JBool(b) == [t |-> "bool", b |-> b]

JArr(a) == [t |-> "arr", a |-> a]

JObj(o) == [t |-> "obj", o |-> o]

Prop(k, v) == [k |-> k, v |-> v]

\* x ?? y
Nullish(j) == j.t \in {"undef", "null"}

Coalesce(x, y) == IF Nullish(x) THEN y ELSE x

\* j?.[key]
Get(j, key) ==
    IF j.t = "obj" /\ \E i \in 1..Len(j.o) : j.o[i].k = key
    THEN j.o[CHOOSE i \in 1..Len(j.o) : j.o[i].k = key].v
    ELSE Undef

\* the truthiness of a value
Truthy(j) ==
    CASE j.t \in {"undef", "null"} -> FALSE
      [] j.t = "str" -> j.s # << >>
      [] j.t = "num" -> NumTruthy(j.n)
      [] j.t = "bool" -> j.b
      [] OTHER -> TRUE

RECURSIVE DigitsOf(_)
DigitsOf(i) ==
    IF i < 10 THEN << Digits[i + 1] >>
    ELSE Append(DigitsOf(i \div 10), Digits[(i % 10) + 1])

\* String(x) of a number
NumToString(x) ==
    IF x.d = 0
    THEN (IF x.n = 0 THEN << "N", "a", "N" >>
          ELSE (IF x.n < 0 THEN << "-" >> ELSE << >>)
               \o << "I", "n", "f", "i", "n", "i", "t", "y" >>)
    ELSE (IF x.n < 0 THEN << "-" >> ELSE << >>)
         \o DigitsOf(Abs(x.n) \div x.d)
         \o (IF x.d = 1 THEN << >> ELSE << "." >> \o DigitsOf((Abs(x.n) % x.d)))

\* String(j)
StringOf(j) ==
    CASE j.t = "str" -> j.s
      [] j.t = "num" -> NumToString(j.n)
      [] j.t = "bool" -> IF j.b THEN << "t", "r", "u", "e" >>
                         ELSE << "f", "a", "l", "s", "e" >>
      [] j.t = "null" -> << "n", "u", "l", "l" >>
      [] j.t = "undef" -> << "u", "n", "d", "e", "f", "i", "n", "e", "d" >>
      [] j.t = "arr" -> IF Len(j.a) = 0 THEN << >>
                        ELSE IF Len(j.a) = 1 /\ j.a[1].t = "str" THEN j.a[1].s
                        ELSE << "," >>
      [] OTHER -> << "[", "o", "b", "j", "e", "c", "t", "]" >>

RECURSIVE DigitsValue(_)
DigitsValue(s) ==
    IF s = << >> THEN 0
    ELSE 10 * DigitsValue(SubSeq(s, 1, Len(s) - 1))
         + (CHOOSE i \in 1..10 : Digits[i] = s[Len(s)]) - 1

\* Number(s) of a string: blank is 0, a run of digits is its value, anything
\* else here is NaN
StringToNumber(s) ==
    LET t == Trim(s)
    IN IF t = << >> THEN Num(0)
       ELSE IF \A i \in 1..Len(t) : t[i] \in DigitChars THEN Num(DigitsValue(t))
       ELSE NaN

\* Number(j), and the operand of an arithmetic operator
ToNumber(j) ==
    CASE j.t = "num" -> j.n
      [] j.t = "null" -> Num(0)
      [] j.t = "bool" -> IF j.b THEN Num(1) ELSE Num(0)
      [] j.t = "undef" -> NaN
      [] OTHER -> StringToNumber(StringOf(j))

\* What JSON.parse(JSON.stringify(j)) gives: a property whose value is
\* undefined is dropped, an undefined array element and a non-finite number
\* become null.
RECURSIVE JsonRoundTrip(_)
JsonRoundTrip(j) ==
    CASE j.t = "obj" ->
            LET kept == SelectSeq(j.o, LAMBDA p : p.v.t # "undef")
            IN JObj([i \in 1..Len(kept) |-> Prop(kept[i].k, JsonRoundTrip(kept[i].v))])
      [] j.t = "arr" -> JArr([i \in 1..Len(j.a) |-> JsonRoundTrip(j.a[i])])
      [] j.t = "undef" -> JNull
      [] j.t = "num" -> IF IsFinite(j.n) THEN j ELSE JNull
      [] OTHER -> j

(***************************************************************************)
(* Property names and literals of the source.                              *)
(***************************************************************************)
kResponse == << "r", "e", "s", "p", "o", "n", "s", "e" >>

kCurrencies == << "c", "u", "r", "r", "e", "n", "c", "i", "e", "s" >>

kData == << "d", "a", "t", "a" >>

kRates == << "r", "a", "t", "e", "s" >>

kShortCode == << "s", "h", "o", "r", "t", "_", "c", "o", "d", "e" >>

kCode == << "c", "o", "d", "e" >>

kIsoCode == << "i", "s", "o", "_", "c", "o", "d", "e" >>

kTicker == << "t", "i", "c", "k", "e", "r" >>

kCurrency == << "c", "u", "r", "r", "e", "n", "c", "y" >>

kName == << "n", "a", "m", "e" >>

kCurrencyName ==
    << "c", "u", "r", "r", "e", "n", "c", "y", "_", "n", "a", "m", "e" >>

kFullName == << "f", "u", "l", "l", "N", "a", "m", "e" >>

kLabel == << "l", "a", "b", "e", "l" >>

kSymbol == << "s", "y", "m", "b", "o", "l" >>

kSymbolNative ==
    << "s", "y", "m", "b", "o", "l", "_", "n", "a", "t", "i", "v", "e" >>

kSign == << "s", "i", "g", "n" >>

kAt == << "a", "t" >>

kItems == << "i", "t", "e", "m", "s" >>

kResult == << "r", "e", "s", "u", "l", "t" >>

kValue == << "v", "a", "l", "u", "e" >>

kFallback == << "f", "a", "l", "l", "b", "a", "c", "k" >>

kBase == << "b", "a", "s", "e" >>

kFiat == << "f", "i", "a", "t" >>

kCrypto == << "c", "r", "y", "p", "t", "o" >>

USD == << "U", "S", "D" >>

EUR == << "E", "U", "R" >>

GBP == << "G", "B", "P" >>

JPY == << "J", "P", "Y" >>

CHF == << "C", "H", "F" >>

CAD == << "C", "A", "D" >>

USDT == << "U", "S", "D", "T" >>

(***************************************************************************)
(* Currency: { code, name, symbol? }, an object of three properties; a     *)
(* symbol that was never given is Undef.                                   *)
(***************************************************************************)
Currency(code, name, symbol) ==
    JObj(<< Prop(kCode, JStr(code)), Prop(kName, JStr(name)),
            Prop(kSymbol, symbol) >>)

CodeOf(c) == Get(c, kCode).s

NameOf(c) == Get(c, kName).s

\* (a, b) => a.name.localeCompare(b.name) || a.code.localeCompare(b.code)
CompareCurrency(a, b) ==
    LET byName == LocaleCompare(NameOf(a), NameOf(b))
    IN IF byName # 0 THEN byName ELSE LocaleCompare(CodeOf(a), CodeOf(b))

\* x put into the sorted sequence s after every element that is not greater
RECURSIVE InsertSorted(_, _, _)
InsertSorted(Cmp(_, _), s, x) ==
    IF s = << >> THEN << x >>
    ELSE IF Cmp(x, s[1]) < 0 THEN << x >> \o s
    ELSE << s[1] >> \o InsertSorted(Cmp, Tail(s), x)

\* Array.prototype.sort with a comparator: a stable sort
RECURSIVE SortBy(_, _)
SortBy(Cmp(_, _), s) ==
    IF s = << >> THEN << >>
    ELSE InsertSorted(Cmp, SortBy(Cmp, SubSeq(s, 1, Len(s) - 1)), s[Len(s)])

(***************************************************************************)
(* parseCurrenciesJSON                                                     *)
(***************************************************************************)
\* a ?? b ?? ... : the first value that is neither null nor undefined, else
\* the last one
RECURSIVE FirstDefined(_)
FirstDefined(vals) ==
    IF Len(vals) = 1 \/ ~Nullish(vals[1]) THEN vals[1]
    ELSE FirstDefined(Tail(vals))

Sources(raw, type) ==
    << Get(Get(raw, kResponse), kCurrencies),
       Get(Get(raw, kResponse), type),
       Get(raw, kCurrencies),
       Get(Get(raw, kData), kCurrencies),
       Get(Get(raw, kData), type),
       Get(raw, kResponse),
       raw >>

normalizeCode(value) ==
    ToUpperCase(Trim(StringOf(Coalesce(value, JStr(<< >>)))))

\* currencyByCode[code] = cur: an existing key keeps its place
PutByCode(table, cur) ==
    IF \E i \in 1..Len(table) : CodeOf(table[i]) = CodeOf(cur)
    THEN [table EXCEPT
            ![CHOOSE i \in 1..Len(table) : CodeOf(table[i]) = CodeOf(cur)] = cur]
    ELSE Append(table, cur)

\* addCandidate without the test of the code
addCandidateAnyCode(table, codeRaw, nameRaw, symbolRaw) ==
    PutByCode(table,
        Currency(normalizeCode(codeRaw),
                 StringOf(Coalesce(nameRaw, JStr(normalizeCode(codeRaw)))), symbolRaw))

addCandidate(table, codeRaw, nameRaw, symbolRaw) ==
    LET code == normalizeCode(codeRaw)
    IN IF ~IsCode(code) THEN table
       ELSE PutByCode(table,
                Currency(code, StringOf(Coalesce(nameRaw, JStr(code))), symbolRaw))

CodeFields(v) ==
    << Get(v, kShortCode), Get(v, kCode), Get(v, kIsoCode), Get(v, kTicker),
       Get(v, kCurrency) >>

NameFields(v) ==
    << Get(v, kName), Get(v, kCurrencyName), Get(v, kFullName),
       Get(v, kCurrency), Get(v, kLabel) >>

SymbolFields(v) == << Get(v, kSymbol), Get(v, kSymbolNative), Get(v, kSign) >>

\* one element of an array source
ScanItem(table, item) ==
    LET code == FirstDefined(CodeFields(item))
        name == FirstDefined(Append(NameFields(item), code))
        symbol == FirstDefined(SymbolFields(item))
    IN IF Truthy(code) /\ Truthy(name)
       THEN addCandidate(table, code, name, symbol)
       ELSE table

\* one [key, value] entry of an object source
ScanEntry(table, key, value) ==
    IF value.t = "str"
    THEN (IF IsCode(key) THEN addCandidate(table, JStr(key), value, Undef)
          ELSE table)
    ELSE LET code == FirstDefined(Append(CodeFields(value),
                         IF IsCode(key) THEN JStr(key) ELSE Undef))
             name == FirstDefined(Append(NameFields(value), code))
             symbol == FirstDefined(SymbolFields(value))
         IN IF Truthy(code) /\ Truthy(name)
            THEN addCandidate(table, code, name, symbol)
            ELSE table

RECURSIVE ScanArray(_, _, _)
ScanArray(table, a, i) ==
    IF i > Len(a) THEN table
    ELSE ScanArray(ScanItem(table, a[i]), a, i + 1)

RECURSIVE ScanObject(_, _, _)
ScanObject(table, o, i) ==
    IF i > Len(o) THEN table
    ELSE ScanObject(ScanEntry(table, o[i].k, o[i].v), o, i + 1)

ScanSource(table, source) ==
    CASE source.t = "arr" -> ScanArray(table, source.a, 1)
      [] source.t = "obj" -> ScanObject(table, source.o, 1)
      [] OTHER -> table

\* the scan stopping at the first source that yields an entry
RECURSIVE ScanSourcesFirstMatch(_, _, _)
ScanSourcesFirstMatch(table, sources, i) ==
    IF i > Len(sources) \/ table # << >> THEN table
    ELSE ScanSourcesFirstMatch(ScanSource(table, sources[i]), sources, i + 1)

RECURSIVE ScanSources(_, _, _)
ScanSources(table, sources, i) ==
    IF i > Len(sources) THEN table
    ELSE ScanSources(ScanSource(table, sources[i]), sources, i + 1)

parseCurrenciesJSON(raw, type) ==
    SortBy(CompareCurrency, ScanSources(<< >>, Sources(raw, type), 1))

(***************************************************************************)
(* parseRates: the rate map is an object of numbers.                       *)
(***************************************************************************)
\* Object.entries of an object or an array
Entries(j) ==
    IF j.t = "obj" THEN j.o
    ELSE [i \in 1..Len(j.a) |-> Prop(DigitsOf(i - 1), j.a[i])]

\* out[key] = value
PutKey(o, key, value) ==
    IF \E i \in 1..Len(o) : o[i].k = key
    THEN [o EXCEPT ![CHOOSE i \in 1..Len(o) : o[i].k = key] = Prop(key, value)]
    ELSE Append(o, Prop(key, value))

\* the loop of parseRates keeping every number, finite or not
RECURSIVE KeepRatesAnyNumber(_, _, _)
KeepRatesAnyNumber(out, entries, i) ==
    IF i > Len(entries) THEN out
    ELSE KeepRatesAnyNumber(
            IF entries[i].v.t = "num"
            THEN PutKey(out, ToUpperCase(entries[i].k), entries[i].v)
            ELSE out,
            entries, i + 1)

RECURSIVE KeepRates(_, _, _)
KeepRates(out, entries, i) ==
    IF i > Len(entries) THEN out
    ELSE KeepRates(
            IF entries[i].v.t = "num" /\ IsFinite(entries[i].v.n)
            THEN PutKey(out, ToUpperCase(entries[i].k), entries[i].v)
            ELSE out,
            entries, i + 1)

parseRates(json) ==
    LET rates == Coalesce(Get(json, kRates), Get(Get(json, kResponse), kRates))
    IN IF rates.t \notin {"obj", "arr"} THEN JObj(<< >>)
       ELSE JObj(KeepRates(<< >>, Entries(rates), 1))

\* Object.keys
Keys(j) == [i \in 1..Len(j.o) |-> j.o[i].k]

(***************************************************************************)
(* currencyNames.  Intl.DisplayNames is there or not; of(code) throws a    *)
(* RangeError for a code that is not three letters, and gives the code     *)
(* itself when it knows no name for it.                                    *)
(***************************************************************************)
DisplayNameOf(code) ==
    CASE code = USD -> << "U", "S", " ", "D", "o", "l", "l", "a", "r" >>
      [] code = EUR -> << "E", "u", "r", "o" >>
      [] code = GBP -> << "B", "r", "i", "t", "i", "s", "h", " ", "P", "o",
                          "u", "n", "d" >>
      [] OTHER -> code

WellFormedCurrencyCode(code) ==
    Len(code) = 3 /\ \A i \in 1..3 : IsUpper(UpperChar(code[i]))

NamedCurrency(c) ==
    LET hasMeaningfulName ==
            NameOf(c) # << >> /\ ToUpperCase(NameOf(c)) # CodeOf(c)
    IN Currency(CodeOf(c),
                IF hasMeaningfulName THEN NameOf(c) ELSE DisplayNameOf(CodeOf(c)),
                Get(c, kSymbol))

currencyNames(currencies, intlOk) ==
    IF ~intlOk THEN currencies
    ELSE IF \E i \in 1..Len(currencies) : ~WellFormedCurrencyCode(CodeOf(currencies[i]))
    THEN currencies
    ELSE [i \in 1..Len(currencies) |-> NamedCurrency(currencies[i])]

(***************************************************************************)
(* The transport.  An upstream response is ok with a body, a non-success   *)
(* HTTP status, or a network failure; get throws on the last two.          *)
(***************************************************************************)
NoError == [kind |-> "none", endpoint |-> "", status |-> 0]

HttpError(endpoint, status) ==
    [kind |-> "http", endpoint |-> endpoint, status |-> status]

NetworkError(endpoint) == [kind |-> "network", endpoint |-> endpoint, status |-> 0]

FallbackUnavailable == [kind |-> "fallback", endpoint |-> "", status |-> 0]

Ok(body) == [kind |-> "ok", status |-> 200, body |-> body]

Failures ==
    { [kind |-> "http", status |-> 500, body |-> Undef],
      [kind |-> "network", status |-> 0, body |-> Undef] }

\* the error get throws for a response, NoError when it returns the body
GetError(endpoint, resp) ==
    CASE resp.kind = "ok" -> NoError
      [] resp.kind = "http" -> HttpError(endpoint, resp.status)
      [] OTHER -> NetworkError(endpoint)

Request(endpoint, params) == [endpoint |-> endpoint, params |-> params]

(***************************************************************************)
(* getCurrencies                                                           *)
(***************************************************************************)
ONE_DAY == 86400000

MinList == 5

kType == << "t", "y", "p", "e" >>

Categories == {kFiat, kCrypto}

\* What localStorage holds under a key: nothing, the empty string, a text
\* that is not JSON, or the text of a JSON document.
Absent == [k |-> "absent", doc |-> Undef]

EmptyText == [k |-> "empty", doc |-> Undef]

BadText == [k |-> "bad", doc |-> Undef]

Text(doc) == [k |-> "json", doc |-> doc]

\* CacheCheck with <= for <: an entry that is exactly one day old still counts
CacheCheckLate(cached, nowMs) ==
    IF cached.k # "json" \/ Nullish(cached.doc)
    THEN [hit |-> FALSE, items |-> Undef]
    ELSE LET at == Get(cached.doc, kAt)
             items == Get(cached.doc, kItems)
             age == Sub(Num(nowMs), ToNumber(at))
             fresh == Less(age, Num(ONE_DAY)) \/ age = Num(ONE_DAY)
             looksValid ==
                 /\ items.t = "arr"
                 /\ Len(items.a) > 0
                 /\ \A i \in 1..Len(items.a) :
                        IsCode(StringOf(Get(items.a[i], kCode)))
         IN IF fresh /\ looksValid
            THEN [hit |-> TRUE, items |-> items]
            ELSE [hit |-> FALSE, items |-> Undef]

\* lines 240-257: the stored items when the entry is usable
CacheCheck(cached, nowMs) ==
    IF cached.k # "json" \/ Nullish(cached.doc)
    THEN [hit |-> FALSE, items |-> Undef]
    ELSE LET at == Get(cached.doc, kAt)
             items == Get(cached.doc, kItems)
             fresh == Less(Sub(Num(nowMs), ToNumber(at)), Num(ONE_DAY))
             looksValid ==
                 /\ items.t = "arr"
                 /\ Len(items.a) > 0
                 /\ \A i \in 1..Len(items.a) :
                        IsCode(StringOf(Get(items.a[i], kCode)))
         IN IF fresh /\ looksValid
            THEN [hit |-> TRUE, items |-> items]
            ELSE [hit |-> FALSE, items |-> Undef]

\* lines 260-266: the list of the currencies request, [] when it fails
PrimaryList(type, resp) ==
    IF resp.kind = "ok"
    THEN [err |-> NoError, list |-> parseCurrenciesJSON(resp.body, type)]
    ELSE [err |-> NoError, list |-> << >>]

\* NeedsFallback with <= for <
NeedsFallbackOffByOne(list) == Len(list) <= MinList

\* line 269
NeedsFallback(list) == Len(list) < MinList

\* Array.from(new Set(s))
RECURSIVE Dedup(_)
Dedup(s) ==
    IF s = << >> THEN << >>
    ELSE LET front == Dedup(SubSeq(s, 1, Len(s) - 1))
         IN IF s[Len(s)] \in Range(front) THEN front ELSE Append(front, s[Len(s)])

\* lines 272-275
CodesFromRates(rates) == SelectSeq(Dedup(<< USD >> \o Keys(rates)), IsCode)

\* FallbackList without its catch: the error of the latest request escapes
FallbackListNoCatch(list, resp) ==
    IF resp.kind = "ok"
    THEN LET codes == CodesFromRates(parseRates(resp.body))
         IN [err |-> NoError,
             list |-> [i \in 1..Len(codes) |-> Currency(codes[i], codes[i], Undef)]]
    ELSE [err |-> GetError("latest", resp), list |-> list]

\* lines 270-278: the list of the latest request, the old list when it fails
FallbackList(list, resp) ==
    IF resp.kind = "ok"
    THEN LET codes == CodesFromRates(parseRates(resp.body))
         IN [err |-> NoError,
             list |-> [i \in 1..Len(codes) |-> Currency(codes[i], codes[i], Undef)]]
    ELSE [err |-> NoError, list |-> list]

\* lines 282-284
NamedAndSorted(list, intlOk) == SortBy(CompareCurrency, currencyNames(list, intlOk))

\* CacheDoc with the time in seconds
CacheDocSeconds(nowMs, list) ==
    JsonRoundTrip(JObj(<< Prop(kAt, JNum(Num(nowMs \div 1000))),
                          Prop(kItems, JArr(list)) >>))

\* line 287: the document whose text is stored
CacheDoc(nowMs, list) ==
    JsonRoundTrip(JObj(<< Prop(kAt, JNum(Num(nowMs))), Prop(kItems, JArr(list)) >>))

(***************************************************************************)
(* The state.                                                              *)
(***************************************************************************)
VARIABLES
    now,        \* Date.now(), in ms
    ticks,      \* how often the clock has advanced
    intlOk,     \* whether Intl.DisplayNames is there
    store,      \* localStorage: what is stored for each category
    cur,        \* the getCurrencies calls
    conv,       \* the convertOnce call
    ts,         \* the getTimeseries call
    tz,         \* the local time zone
    norm,       \* the last application of a normalizer
    deb,        \* a component using useDebounced
    app,        \* the App component
    net         \* a call of the transport get

curVars == << now, ticks, intlOk, store, cur >>

convVars == << conv >>

tsVars == << ts, tz >>

normVars == << norm >>

uiVars == << deb, app >>

netVars == << net >>

vars == << curVars, convVars, tsVars, normVars, uiVars, netVars >>

MaxTicks == 1

Calls == {"c1", "c2"}

\* the clock's value in the initial state
Now0 == 2 * ONE_DAY

TickSteps == {ONE_DAY - 1, ONE_DAY}

(***************************************************************************)
(* The environment's payloads.                                             *)
(***************************************************************************)
Item(code, name) == JObj(<< Prop(kShortCode, JStr(code)), Prop(kName, JStr(name)) >>)

SixItems ==
    << Item(USD, USD),
       Item(<< "e", "u", "r" >>, << "E", "u", "r", "o" >>),
       Item(GBP, << "P", "o", "u", "n", "d" >>),
       Item(JPY, << "Y", "e", "n" >>),
       Item(CHF, << "F", "r", "a", "n", "c" >>),
       Item(CAD, << "D", "o", "l", "l", "a", "r" >>) >>

CurrenciesBodies ==
    { JObj(<< Prop(kResponse, JArr(SubSeq(SixItems, 1, k))) >>) : k \in {4, 5} }
    \cup { JObj(<< Prop(kCurrencies,
                        JObj(<< Prop(USDT, JStr(<< "T", "e", "t", "h", "e", "r" >>)),
                                Prop(<< "x", "1" >>, JStr(<< "n", "o" >>)) >>)) >>),
           JNull }

LatestBodies ==
    { JObj(<< Prop(kRates, JObj(<< Prop(EUR, JNum(Norm(9, 10))),
                                   Prop(GBP, JNum(Norm(4, 5))) >>)) >>),
      JObj(<< Prop(kResponse,
                   JObj(<< Prop(kRates,
                                JObj(<< Prop(<< "j", "p", "y" >>, JNum(Num(150))),
                                        Prop(USD, JNum(Num(1))),
                                        Prop(<< "X", "1" >>, JNum(Num(2))),
                                        Prop(CHF, JStr(<< "1" >>)) >>)) >>)) >>),
      JObj(<< >>) }

Entry(at, items) == Text(JObj(<< Prop(kAt, JNum(Num(at))), Prop(kItems, items) >>))

StoredItem(code) == JObj(<< Prop(kCode, JStr(code)), Prop(kName, JStr(code)) >>)

\* what a browser may hold under the key when the page loads
InitCaches ==
    { Absent, BadText, Text(JNull),
      Entry(Now0, JArr(<< StoredItem(USD), StoredItem(EUR) >>)),
      Entry(Now0 - ONE_DAY, JArr(<< StoredItem(USD) >>)),
      Entry(Now0, JArr(<< >>)),
      Entry(Now0, JArr(<< StoredItem(USD), StoredItem(<< "u", "s" >>) >>)),
      Entry(Now0, JStr(USD)) }

(***************************************************************************)
(* getCurrencies as a state machine: a call runs to its first await, then  *)
(* resumes when the request it awaits settles.                             *)
(***************************************************************************)
IdleCall ==
    [pc |-> "idle", type |-> kFiat, hit |-> FALSE, list |-> << >>,
     reqs |-> << >>, wrote |-> Undef, wroteAt |-> 0, ret |-> Undef,
     err |-> NoError]

CurInit ==
    /\ now = Now0
    /\ ticks = 0
    /\ intlOk \in BOOLEAN
    /\ store \in {[c \in Categories |-> IF c = kFiat THEN e ELSE Absent] : e \in InitCaches}
    /\ cur = [c \in Calls |-> IdleCall]

\* time passes
Tick(d) ==
    /\ ticks < MaxTicks
    /\ now' = now + d
    /\ ticks' = ticks + 1
    /\ UNCHANGED << intlOk, store, cur, convVars, tsVars, normVars, uiVars, netVars >>

\* the call reading the record of fiat whatever the category asked
GetCurrenciesReadsFiat(c, type) ==
    /\ cur[c].pc = "idle"
    /\ LET cached == store[kFiat]
           chk == CacheCheck(cached, now)
           call == [IdleCall EXCEPT !.type = type]
       IN cur' = [cur EXCEPT ![c] =
                    IF chk.hit
                    THEN [call EXCEPT !.pc = "done", !.hit = TRUE, !.ret = chk.items]
                    ELSE [call EXCEPT !.pc = "currencies",
                            !.reqs = << Request("currencies",
                                          JObj(<< Prop(kType, JStr(type)) >>)) >>]]
    /\ UNCHANGED << now, ticks, intlOk, store, convVars, tsVars, normVars, uiVars, netVars >>

\* lines 235-262: the cache is read; a usable entry is returned, else the
\* currencies request is issued
GetCurrencies(c, type) ==
    /\ cur[c].pc = "idle"
    /\ LET cached == store[type]
           chk == CacheCheck(cached, now)
           call == [IdleCall EXCEPT !.type = type]
       IN cur' = [cur EXCEPT ![c] =
                    IF chk.hit
                    THEN [call EXCEPT !.pc = "done", !.hit = TRUE, !.ret = chk.items]
                    ELSE [call EXCEPT !.pc = "currencies",
                            !.reqs = << Request("currencies",
                                          JObj(<< Prop(kType, JStr(type)) >>)) >>]]
    /\ UNCHANGED << now, ticks, intlOk, store, convVars, tsVars, normVars, uiVars, netVars >>

\* the list written as it is before the names and the sort
FinishWritesEarly(c, list) ==
    LET final == NamedAndSorted(list, intlOk)
        doc == CacheDoc(now, list)
    IN /\ store' = [store EXCEPT ![cur[c].type] = Text(doc)]
       /\ cur' = [cur EXCEPT ![c].pc = "done", ![c].list = final,
                             ![c].wrote = doc, ![c].wroteAt = now,
                             ![c].ret = JArr(final)]

\* the write left out when the store already holds an entry of this time
FinishKeepsFirstWrite(c, list) ==
    LET final == NamedAndSorted(list, intlOk)
        doc == CacheDoc(now, final)
        held == store[cur[c].type]
    IN /\ store' = [store EXCEPT ![cur[c].type] =
                       IF \E d \in Calls : d # c /\ cur[d].wrote # Undef
                                               /\ held = Text(cur[d].wrote)
                       THEN held ELSE Text(doc)]
       /\ cur' = [cur EXCEPT ![c].pc = "done", ![c].list = final,
                             ![c].wrote = doc, ![c].wroteAt = now,
                             ![c].ret = JArr(final)]

\* lines 281-288: names, sort, write, return
Finish(c, list) ==
    LET final == NamedAndSorted(list, intlOk)
        doc == CacheDoc(now, final)
    IN /\ store' = [store EXCEPT ![cur[c].type] = Text(doc)]
       /\ cur' = [cur EXCEPT ![c].pc = "done", ![c].list = final,
                             ![c].wrote = doc, ![c].wroteAt = now,
                             ![c].ret = JArr(final)]

Throw(c, err) ==
    /\ cur' = [cur EXCEPT ![c].pc = "done", ![c].err = err]
    /\ UNCHANGED store

\* lines 262-271: the currencies request settles
CurrenciesSettles(c, resp) ==
    /\ cur[c].pc = "currencies"
    /\ LET r == PrimaryList(cur[c].type, resp)
       IN IF r.err # NoError THEN Throw(c, r.err)
          ELSE IF NeedsFallback(r.list)
          THEN /\ cur' = [cur EXCEPT ![c].pc = "latest", ![c].list = r.list,
                            ![c].reqs = Append(@, Request("latest", JObj(<< >>)))]
               /\ UNCHANGED store
          ELSE Finish(c, r.list)
    /\ UNCHANGED << now, ticks, intlOk, convVars, tsVars, normVars, uiVars, netVars >>

\* lines 271-288: the latest request settles
LatestSettles(c, resp) ==
    /\ cur[c].pc = "latest"
    /\ LET r == FallbackList(cur[c].list, resp)
       IN IF r.err # NoError THEN Throw(c, r.err) ELSE Finish(c, r.list)
    /\ UNCHANGED << now, ticks, intlOk, convVars, tsVars, normVars, uiVars, netVars >>

(***************************************************************************)
(* Properties of getCurrencies.                                            *)
(***************************************************************************)
CodesOf(list) == {CodeOf(list[i]) : i \in 1..Len(list)}

\* C1: a getCurrencies call never fails: whatever the currencies and latest
\* requests do and whatever the store held, a call that has completed threw
\* nothing and returned a list, which may be empty.
C1_NeverFails ==
    \A c \in Calls :
        cur[c].pc = "done" => cur[c].err = NoError /\ cur[c].ret.t = "arr"

\* a call whose two requests gave nothing has returned the empty list
C1_Witness ==
    \E c \in Calls :
        /\ cur[c].pc = "done"
        /\ Len(cur[c].reqs) = 2
        /\ cur[c].ret = JArr(<< >>)
        /\ cur[c].err = NoError

\* a stored entry {at, items} with at a time in ms and items a list
IsEntry(e) ==
    /\ e.k = "json"
    /\ e.doc.t = "obj"
    /\ Get(e.doc, kAt).t = "num"
    /\ Get(e.doc, kAt).n.d = 1
    /\ Get(e.doc, kItems).t = "arr"

EntryAt(e) == Get(e.doc, kAt).n.n

EntryItems(e) == Get(e.doc, kItems)

EveryCodeMatches(items) ==
    \A i \in 1..Len(items.a) :
        Get(items.a[i], kCode).t = "str" /\ IsCode(Get(items.a[i], kCode).s)

\* in this step call c starts
Starts(c) == cur[c].pc = "idle" /\ cur'[c].pc # "idle"

\* in this step call c returns items without a request or a write
ServedFromCache(c, items) ==
    /\ cur'[c].pc = "done"
    /\ cur'[c].hit
    /\ cur'[c].ret = items
    /\ cur'[c].reqs = << >>
    /\ cur'[c].err = NoError
    /\ store' = store

\* in this step call c issues the currencies request
Refetches(c) ==
    /\ cur'[c].pc = "currencies"
    /\ cur'[c].reqs =
         << Request("currencies", JObj(<< Prop(kType, JStr(cur'[c].type)) >>)) >>
    /\ store' = store

\* C2 as stated: for a stored entry {at, items} with items a list of any
\* length, a call returns the stored items without refetching exactly when
\* now - at < 24h and every item's code matches the code pattern, and
\* refetches in every other case.
C2_AsStated ==
    [][\A c \in Calls :
          Starts(c) =>
            LET e == store[cur'[c].type]
            IN IsEntry(e) =>
                 IF now - EntryAt(e) < 86400000 /\ EveryCodeMatches(EntryItems(e))
                 THEN ServedFromCache(c, EntryItems(e))
                 ELSE Refetches(c)]_vars

\* C2 as amended: the stored items are returned without refetching exactly
\* when now - at < 24h, the list is not empty and every item's code matches
\* the code pattern; in every other case the call refetches.
C2_UsableEntry ==
    [][\A c \in Calls :
          Starts(c) =>
            LET e == store[cur'[c].type]
            IN IsEntry(e) =>
                 IF /\ now - EntryAt(e) < 86400000
                    /\ Len(EntryItems(e).a) > 0
                    /\ EveryCodeMatches(EntryItems(e))
                 THEN ServedFromCache(c, EntryItems(e))
                 ELSE Refetches(c)]_vars

\* a call was served an entry that was one ms short of a day old
C2_Witness ==
    \E c \in Calls :
        /\ cur[c].pc = "done"
        /\ cur[c].hit
        /\ cur[c].reqs = << >>
        /\ IsEntry(store[cur[c].type])
        /\ cur[c].ret = EntryItems(store[cur[c].type])
        /\ now - EntryAt(store[cur[c].type]) = 86400000 - 1

\* call w missed the cache and what it wrote for the category is still stored
WrittenBy(w, type) ==
    /\ cur[w].pc = "done"
    /\ ~cur[w].hit
    /\ cur[w].type = type
    /\ store[type] = Text(cur[w].wrote)

\* equal as JSON: a property that is undefined counts as missing
SameJson(a, b) == JsonRoundTrip(a) = JsonRoundTrip(b)

\* C3 as stated: after a call that missed the cache has written list L at
\* time t, a later call at t' with t' - t < 24h returns exactly L, issues no
\* request and does not rewrite the entry; a call at t' - t >= 24h issues a
\* new currencies request.
C3_AsStated ==
    [][\A c \in Calls, w \in Calls :
          Starts(c) /\ WrittenBy(w, cur'[c].type) =>
            IF now - cur[w].wroteAt < 86400000
            THEN /\ cur'[c].pc = "done"
                 /\ SameJson(cur'[c].ret, JArr(cur[w].list))
                 /\ cur'[c].reqs = << >>
                 /\ store' = store
            ELSE Refetches(c)]_vars

\* C3 as amended: the same, for a list L that is not empty.
C3_RoundTrip ==
    [][\A c \in Calls, w \in Calls :
          Starts(c) /\ WrittenBy(w, cur'[c].type) /\ cur[w].list # << >> =>
            IF now - cur[w].wroteAt < 86400000
            THEN /\ cur'[c].pc = "done"
                 /\ SameJson(cur'[c].ret, JArr(cur[w].list))
                 /\ cur'[c].reqs = << >>
                 /\ store' = store
            ELSE Refetches(c)]_vars

\* a call was served the list another call had written
C3_Witness ==
    \E c \in Calls, w \in Calls :
        /\ WrittenBy(w, cur[c].type)
        /\ cur[w].list # << >>
        /\ cur[c].pc = "done"
        /\ cur[c].hit
        /\ SameJson(cur[c].ret, JArr(cur[w].list))
        /\ now > cur[w].wroteAt

CurrenciesResponses == {Ok(b) : b \in CurrenciesBodies} \cup Failures

LatestResponses == {Ok(b) : b \in LatestBodies} \cup Failures

\* C4: on a cache miss the latest request is issued if and only if the list
\* normalized from the currencies request has fewer than 5 entries (none when
\* the request failed); when the latest request succeeds the list's codes are
\* USD and the rate map's keys that match the code pattern, and when it fails
\* the list obtained from currencies is kept.
C4_FallbackRule ==
    [][/\ \A c \in Calls, resp \in CurrenciesResponses :
            CurrenciesSettles(c, resp) =>
              LET n == IF resp.kind = "ok"
                       THEN Len(parseCurrenciesJSON(resp.body, cur[c].type))
                       ELSE 0
              IN IF n < 5
                 THEN /\ cur'[c].pc = "latest"
                      /\ cur'[c].reqs = Append(cur[c].reqs, Request("latest", JObj(<< >>)))
                 ELSE /\ cur'[c].pc = "done"
                      /\ cur'[c].reqs = cur[c].reqs
       /\ \A c \in Calls, resp \in LatestResponses :
            LatestSettles(c, resp) =>
              /\ cur'[c].pc = "done"
              /\ cur'[c].reqs = cur[c].reqs
              /\ IF resp.kind = "ok"
                 THEN CodesOf(cur'[c].list) =
                        {k \in {USD} \cup Range(Keys(parseRates(resp.body))) : IsCode(k)}
                 ELSE /\ CodesOf(cur'[c].list) = CodesOf(cur[c].list)
                      /\ Len(cur'[c].list) = Len(cur[c].list)]_vars

\* a call fell back to latest and returned USD and the two keys of its rates
C4_Witness ==
    \E c \in Calls :
        /\ cur[c].pc = "done"
        /\ Len(cur[c].reqs) = 2
        /\ cur[c].reqs[2].endpoint = "latest"
        /\ CodesOf(cur[c].list) = {USD, EUR, GBP}

\* in this step call c returns from a cache miss
ReturnsFromMiss(c) ==
    /\ cur[c].pc \in {"currencies", "latest"}
    /\ cur'[c].pc = "done"
    /\ cur'[c].err = NoError

\* C18: on every cache-miss path (the list of currencies used, the list of
\* latest used, or both requests failed), when the call returns list L the
\* store holds, under the key of the category asked and nowhere else, an
\* entry written in that step with at = the time of the write and items = L
\* (as JSON), L being the list after the names and the sort.
C18_WriteBeforeReturn ==
    [][\A c \in Calls :
          ReturnsFromMiss(c) =>
            LET type == cur[c].type
                L == cur'[c].ret
            IN /\ L.t = "arr"
               /\ IsEntry(store'[type])
               /\ EntryAt(store'[type]) = now
               /\ SameJson(EntryItems(store'[type]), L)
               /\ \A t \in Categories \ {type} : store'[t] = store[t]
               /\ \A i \in 1..Len(L.a), j \in 1..Len(L.a) :
                     i < j => CompareCurrency(L.a[i], L.a[j]) <= 0
               /\ intlOk /\ (\A i \in 1..Len(L.a) : Len(CodeOf(L.a[i])) = 3)
                     => \A i \in 1..Len(L.a) :
                           NameOf(L.a[i]) = CodeOf(L.a[i])
                               => DisplayNameOf(CodeOf(L.a[i])) = CodeOf(L.a[i])
      ]_vars

\* a call has returned the list of the latest fallback, names filled in, and
\* the store holds it with the time of the write
C18_Witness ==
    \E c \in Calls :
        /\ cur[c].pc = "done"
        /\ ~cur[c].hit
        /\ cur[c].err = NoError
        /\ Len(cur[c].reqs) = 2
        /\ Len(cur[c].ret.a) >= 3
        /\ \E i \in 1..Len(cur[c].ret.a) :
              NameOf(cur[c].ret.a[i]) # CodeOf(cur[c].ret.a[i])
        /\ IsEntry(store[cur[c].type])
        /\ EntryAt(store[cur[c].type]) = cur[c].wroteAt
        /\ SameJson(EntryItems(store[cur[c].type]), cur[c].ret)

(***************************************************************************)
(* convertOnce and convertViaUSD                                           *)
(***************************************************************************)
kFrom == << "f", "r", "o", "m" >>

kTo == << "t", "o" >>

kAmount == << "a", "m", "o", "u", "n", "t" >>

kSymbols == << "s", "y", "m", "b", "o", "l", "s" >>

\* String(x || '').trim().toUpperCase() of a string
NormalizeSide(raw) == ToUpperCase(Trim(raw))

\* Number(x) || 0 of a number
CoerceAmount(x) == IF NumTruthy(x) THEN x ELSE Num(0)

\* a ConvertResponse { result, rate, meta }
Response(result, rate, meta) == [result |-> result, rate |-> rate, meta |-> meta]

NoResponse == Response(NaN, Undef, Undef)

\* lines 364-370
ResultOf(json) ==
    ToNumber(FirstDefined(<< Get(json, kResult),
                             Get(Get(json, kResponse), kValue),
                             Get(Get(json, kResponse), kResult),
                             Get(Get(json, kData), kResult),
                             Get(json, kValue) >>))

\* PrimaryResult whose rate is never left undefined
PrimaryResultAlwaysDivides(amount, resp) ==
    IF resp.kind = "ok" /\ IsFinite(ResultOf(resp.body))
    THEN [err |-> NoError, fallback |-> FALSE,
          ret |-> Response(ResultOf(resp.body),
                           JNum(Div(ResultOf(resp.body), amount)), resp.body)]
    ELSE [err |-> NoError, fallback |-> TRUE, ret |-> NoResponse]

\* PrimaryResult that gives the result for the rate
PrimaryResultNoDivision(amount, resp) ==
    IF resp.kind = "ok" /\ IsFinite(ResultOf(resp.body))
    THEN [err |-> NoError, fallback |-> FALSE,
          ret |-> Response(ResultOf(resp.body),
                           IF NumTruthy(amount) THEN JNum(ResultOf(resp.body))
                           ELSE Undef,
                           resp.body)]
    ELSE [err |-> NoError, fallback |-> TRUE, ret |-> NoResponse]

\* PrimaryResult without its catch: the error of the convert request escapes
PrimaryResultNoCatch(amount, resp) ==
    IF resp.kind = "ok" /\ IsFinite(ResultOf(resp.body))
    THEN [err |-> NoError, fallback |-> FALSE,
          ret |-> Response(ResultOf(resp.body),
                           IF NumTruthy(amount)
                           THEN JNum(Div(ResultOf(resp.body), amount))
                           ELSE Undef,
                           resp.body)]
    ELSE IF resp.kind = "ok"
    THEN [err |-> NoError, fallback |-> TRUE, ret |-> NoResponse]
    ELSE [err |-> GetError("convert", resp), fallback |-> FALSE, ret |-> NoResponse]

\* lines 360-383: the try block; what it throws is caught and starts the
\* fallback
PrimaryResult(amount, resp) ==
    IF resp.kind = "ok" /\ IsFinite(ResultOf(resp.body))
    THEN [err |-> NoError, fallback |-> FALSE,
          ret |-> Response(ResultOf(resp.body),
                           IF NumTruthy(amount)
                           THEN JNum(Div(ResultOf(resp.body), amount))
                           ELSE Undef,
                           resp.body)]
    ELSE [err |-> NoError, fallback |-> TRUE, ret |-> NoResponse]

\* lines 310-312
SymbolsNeeded(from, to) ==
    (IF from # USD THEN << from >> ELSE << >>)
    \o (IF to # USD THEN << to >> ELSE << >>)

\* Array.prototype.join(',')
RECURSIVE Join(_)
Join(parts) ==
    IF parts = << >> THEN << >>
    ELSE IF Len(parts) = 1 THEN parts[1]
    ELSE parts[1] \o << "," >> \o Join(Tail(parts))

\* lines 315-318: the parameters of the latest request
LatestParams(from, to) ==
    LET symbols == Join(Dedup(SymbolsNeeded(from, to)))
    IN IF symbols # << >> THEN JObj(<< Prop(kSymbols, JStr(symbols)) >>)
       ELSE JObj(<< >>)

FallbackMeta(rates) ==
    JObj(<< Prop(kFallback, JBool(TRUE)), Prop(kBase, JStr(USD)),
            Prop(kRates, rates) >>)

\* convertViaUSD with the cross-rate upside down
convertViaUSDInverted(from, to, amount, resp) ==
    IF resp.kind # "ok"
    THEN [err |-> GetError("latest", resp), ret |-> NoResponse]
    ELSE LET rates == parseRates(resp.body)
             fromRateUSD == IF from = USD THEN JNum(Num(1)) ELSE Get(rates, from)
             toRateUSD == IF to = USD THEN JNum(Num(1)) ELSE Get(rates, to)
         IN IF fromRateUSD.t # "num" \/ toRateUSD.t # "num"
            THEN [err |-> FallbackUnavailable, ret |-> NoResponse]
            ELSE LET perUnitRate == Div(fromRateUSD.n, toRateUSD.n)
                 IN [err |-> NoError,
                     ret |-> Response(Mul(amount, perUnitRate), JNum(perUnitRate),
                                      FallbackMeta(rates))]

\* convertViaUSD that looks USD up in the rates like any other code
convertViaUSDLooksUpUSD(from, to, amount, resp) ==
    IF resp.kind # "ok"
    THEN [err |-> GetError("latest", resp), ret |-> NoResponse]
    ELSE LET rates == parseRates(resp.body)
             fromRateUSD == Get(rates, from)
             toRateUSD == Get(rates, to)
         IN IF fromRateUSD.t # "num" \/ toRateUSD.t # "num"
            THEN [err |-> FallbackUnavailable, ret |-> NoResponse]
            ELSE LET perUnitRate == Div(toRateUSD.n, fromRateUSD.n)
                 IN [err |-> NoError,
                     ret |-> Response(Mul(amount, perUnitRate), JNum(perUnitRate),
                                      FallbackMeta(rates))]

\* lines 318-337: convertViaUSD once its latest request has settled
convertViaUSD(from, to, amount, resp) ==
    IF resp.kind # "ok"
    THEN [err |-> GetError("latest", resp), ret |-> NoResponse]
    ELSE LET rates == parseRates(resp.body)
             fromRateUSD == IF from = USD THEN JNum(Num(1)) ELSE Get(rates, from)
             toRateUSD == IF to = USD THEN JNum(Num(1)) ELSE Get(rates, to)
         IN IF fromRateUSD.t # "num" \/ toRateUSD.t # "num"
            THEN [err |-> FallbackUnavailable, ret |-> NoResponse]
            ELSE LET perUnitRate == Div(toRateUSD.n, fromRateUSD.n)
                 IN [err |-> NoError,
                     ret |-> Response(Mul(amount, perUnitRate), JNum(perUnitRate),
                                      FallbackMeta(rates))]

\* what the caller passes
SideInputs == {USD, << " ", "u", "s", "d" >>, EUR, << "g", "b", "p", " " >>, << >>}

AmountInputs == {Num(0), Num(100), Num(3), NaN}

ConvertBodies ==
    { JObj(<< Prop(kResult, JNum(Num(85))) >>),
      JObj(<< Prop(kResponse, JObj(<< Prop(kValue, JNum(Norm(171, 2))) >>)) >>),
      JObj(<< Prop(kResult, JNull), Prop(kValue, JStr(<< "9", "0" >>)) >>),
      JObj(<< Prop(kResult, JStr(<< "n", "/", "a" >>)), Prop(kValue, JNum(Num(5))) >>),
      JObj(<< Prop(kData, JObj(<< Prop(kResult, JNum(Num(0))) >>)) >>),
      JObj(<< >>) }

ConvertResponses == {Ok(b) : b \in ConvertBodies} \cup Failures

RatesBodies ==
    { JObj(<< Prop(kRates, JObj(<< Prop(EUR, JNum(Norm(9, 10))),
                                   Prop(GBP, JNum(Norm(4, 5))) >>)) >>),
      JObj(<< Prop(kResponse,
                   JObj(<< Prop(kRates,
                                JObj(<< Prop(<< "e", "u", "r" >>, JNum(Num(2))),
                                        Prop(GBP, JStr(<< "1" >>)) >>)) >>)) >>),
      JObj(<< Prop(kRates, JObj(<< Prop(EUR, JNum(Num(0))),
                                   Prop(GBP, JNum(Num(0))) >>)) >>),
      JObj(<< >>) }

RatesResponses == {Ok(b) : b \in RatesBodies} \cup Failures

IdleConv ==
    [pc |-> "idle", from |-> << >>, to |-> << >>, amount |-> Num(0),
     reqs |-> << >>, primary |-> "none", secondary |-> "none",
     ret |-> NoResponse, err |-> NoError]

\* lines 353-362: the parameters are normalized, the convert request issued
ConvertOnce(fromRaw, toRaw, amountRaw) ==
    /\ conv.pc = "idle"
    /\ LET from == NormalizeSide(fromRaw)
           to == NormalizeSide(toRaw)
           amount == CoerceAmount(amountRaw)
       IN conv' = [IdleConv EXCEPT
                     !.pc = "convert", !.from = from, !.to = to, !.amount = amount,
                     !.reqs = << Request("convert",
                                   JObj(<< Prop(kFrom, JStr(from)), Prop(kTo, JStr(to)),
                                           Prop(kAmount, JNum(amount)) >>)) >>]
    /\ UNCHANGED << curVars, tsVars, normVars, uiVars, netVars >>

\* lines 362-383 and 310-318: the convert request settles
ConvertSettles(resp) ==
    /\ conv.pc = "convert"
    /\ LET r == PrimaryResult(conv.amount, resp)
       IN conv' =
            IF r.err # NoError
            THEN [conv EXCEPT !.pc = "done", !.primary = resp.kind, !.err = r.err]
            ELSE IF r.fallback
            THEN [conv EXCEPT !.pc = "latest", !.primary = resp.kind,
                    !.reqs = Append(@, Request("latest", LatestParams(conv.from, conv.to)))]
            ELSE [conv EXCEPT !.pc = "done", !.primary = resp.kind, !.ret = r.ret]
    /\ UNCHANGED << curVars, tsVars, normVars, uiVars, netVars >>

\* lines 318-337: the latest request of the fallback settles
RatesSettle(resp) ==
    /\ conv.pc = "latest"
    /\ LET r == convertViaUSD(conv.from, conv.to, conv.amount, resp)
       IN conv' = [conv EXCEPT !.pc = "done", !.secondary = resp.kind,
                     !.ret = r.ret, !.err = r.err]
    /\ UNCHANGED << curVars, tsVars, normVars, uiVars, netVars >>

CurIdle ==
    /\ now = Now0
    /\ ticks = 0
    /\ intlOk = TRUE
    /\ store = [c \in Categories |-> Absent]
    /\ cur = [c \in Calls |-> IdleCall]

(***************************************************************************)
(* Properties of convertOnce.  amount is the amount after Number(x) || 0.  *)
(***************************************************************************)
Returned == conv.pc = "done" /\ conv.err = NoError

\* the result came from convertViaUSD
ViaFallback == Len(conv.reqs) = 2

\* C5: when the convert request succeeds with a finite numeric result, the
\* call returns that result, rate = result / amount if amount is not zero,
\* the raw payload as meta, and issues no latest request; and whenever a
\* result is returned for an amount that is not zero, rate = result / amount.
C5_PerUnitRate ==
    [][/\ \A resp \in ConvertResponses :
            /\ ConvertSettles(resp)
            /\ resp.kind = "ok"
            /\ IsFinite(ResultOf(resp.body))
            => /\ conv'.pc = "done"
               /\ conv'.err = NoError
               /\ conv'.ret.result = ResultOf(resp.body)
               /\ conv'.ret.meta = resp.body
               /\ conv'.reqs = conv.reqs
               /\ Len(conv.reqs) = 1
               /\ conv.amount # Num(0) =>
                    conv'.ret.rate = JNum(Div(ResultOf(resp.body), conv.amount))
       /\ conv'.pc = "done" /\ conv'.err = NoError /\ conv'.amount # Num(0) =>
            conv'.ret.rate = JNum(Div(conv'.ret.result, conv'.amount))]_vars

\* 100 EUR were converted by the convert request to 85, at 17/20
C5_Witness ==
    /\ Returned
    /\ ~ViaFallback
    /\ conv.amount = Num(100)
    /\ conv.ret.result = Num(85)
    /\ conv.ret.rate = JNum(Norm(17, 20))

SideRate(rates, side) == IF side = USD THEN JNum(Num(1)) ELSE Get(rates, side)

\* C9: in the fallback, when the rate of either side is missing the call
\* fails with FallbackUnavailable; otherwise it returns
\* result = amount * (toRate / fromRate), rate = toRate / fromRate and a meta
\* with fallback = true and base = "USD".
C9_CrossRate ==
    [][\A resp \in RatesResponses :
          RatesSettle(resp) /\ resp.kind = "ok" =>
            LET fromRate == SideRate(parseRates(resp.body), conv.from)
                toRate == SideRate(parseRates(resp.body), conv.to)
            IN /\ conv'.pc = "done"
               /\ IF fromRate = Undef \/ toRate = Undef
                  THEN conv'.err = FallbackUnavailable
                  ELSE /\ conv'.err = NoError
                       /\ conv'.ret.rate = JNum(Div(toRate.n, fromRate.n))
                       /\ conv'.ret.result =
                            Mul(conv.amount, Div(toRate.n, fromRate.n))
                       /\ Get(conv'.ret.meta, kFallback) = JBool(TRUE)
                       /\ Get(conv'.ret.meta, kBase) = JStr(USD)
                       /\ Get(conv'.ret.meta, kRates) = parseRates(resp.body)]_vars

\* 3 EUR to GBP by the fallback with EUR at 9/10 and GBP at 4/5: 8/3 at 8/9
C9_Witness ==
    /\ Returned
    /\ ViaFallback
    /\ conv.from = EUR
    /\ conv.to = GBP
    /\ conv.amount = Num(3)
    /\ conv.ret.rate = JNum(Norm(8, 9))
    /\ conv.ret.result = Norm(8, 3)
    /\ Get(conv.ret.meta, kFallback) = JBool(TRUE)

(***************************************************************************)
(* getTimeseries.  A Date is its time value in hours since 2024-03-09      *)
(* 00:00 UTC (NaN for an invalid date); the dates of the model are the     *)
(* days from 2024-03-09 on.  The local time zone has a fixed offset from   *)
(* UTC or moves its clocks forward once.                                   *)
(***************************************************************************)
kDate == << "d", "a", "t", "e" >>

kStartDate == << "s", "t", "a", "r", "t", "_", "d", "a", "t", "e" >>

kEndDate == << "e", "n", "d", "_", "d", "a", "t", "e" >>

MaxDay == 2

TwoDigits(i) == << Digits[(i \div 10) + 1], Digits[(i % 10) + 1] >>

\* "YYYY-MM-DD" of day n
DateStr(n) ==
    << "2", "0", "2", "4", "-", "0", "3", "-" >> \o TwoDigits(9 + n)

KnownDays == 0..20

\* new Date("YYYY-MM-DD"): midnight UTC of that day
ParseDate(str) ==
    IF \E n \in KnownDays : DateStr(n) = str
    THEN Num(24 * (CHOOSE n \in KnownDays : DateStr(n) = str))
    ELSE NaN

\* d.toISOString().slice(0, 10)
IsoDate(hours) == DateStr(hours \div 24)

TimeZones ==
    { [name |-> "UTC", std |-> 0, dst |-> FALSE, at |-> 0],
      [name |-> "Asia/Tokyo", std |-> 9, dst |-> FALSE, at |-> 0],
      \* clocks go from 02:00 EST to 03:00 EDT on 2024-03-10, at 07:00 UTC
      [name |-> "America/New_York", std |-> -5, dst |-> TRUE, at |-> 31] }

\* the offset of local time from UTC at a time value
OffsetAt(zone, hours) ==
    IF zone.dst /\ hours >= zone.at THEN zone.std + 1 ELSE zone.std

\* the time value of a local wall-clock time; a wall-clock time the clocks
\* skip is read with the offset before the change
FromLocal(zone, wall) ==
    LET before == wall - zone.std
        after == wall - (zone.std + 1)
    IN IF ~zone.dst \/ before < zone.at THEN before
       ELSE IF after >= zone.at THEN after
       ELSE before

\* d.setDate(d.getDate() + 1): the same wall-clock time on the next local day
NextDay(zone, hours) == FromLocal(zone, hours + OffsetAt(zone, hours) + 24)

\* lines 449-452
RECURSIVE DaysFrom(_, _, _)
DaysFrom(zone, hours, endHours) ==
    IF hours > endHours THEN << >>
    ELSE << IsoDate(hours) >> \o DaysFrom(zone, NextDay(zone, hours), endHours)

\* lines 445-452: the days of [start, end]; none when a date is invalid
DaysOf(zone, start, end) ==
    LET s == ParseDate(start)
        e == ParseDate(end)
    IN IF s = NaN \/ e = NaN THEN << >> ELSE DaysFrom(zone, s.n, e.n)

\* the UTF-16 code unit of a character
CharCode(c) ==
    IF c \in DigitChars THEN 47 + (CHOOSE i \in 1..10 : Digits[i] = c)
    ELSE IF IsUpper(c) THEN 64 + (CHOOSE i \in 1..26 : UpperAlpha[i] = c)
    ELSE IF IsLower(c) THEN 96 + (CHOOSE i \in 1..26 : LowerAlpha[i] = c)
    ELSE IF c = "-" THEN 45 ELSE IF c = "," THEN 44 ELSE 32

\* the order of Array.prototype.sort without a comparator
RECURSIVE CompareCodeUnits(_, _)
CompareCodeUnits(a, b) ==
    IF a = << >> /\ b = << >> THEN 0
    ELSE IF a = << >> THEN -1
    ELSE IF b = << >> THEN 1
    ELSE IF CharCode(a[1]) < CharCode(b[1]) THEN -1
    ELSE IF CharCode(a[1]) > CharCode(b[1]) THEN 1
    ELSE CompareCodeUnits(Tail(a), Tail(b))

\* a TimeseriesPoint { date, rate }
Point(date, rate) == [date |-> date, rate |-> rate]

\* (a, b) => a.date.localeCompare(b.date)
CompareByDate(a, b) == LocaleCompare(a.date, b.date)

\* Object.keys of any value
KeysOf(j) ==
    IF j.t = "obj" THEN Keys(j)
    ELSE IF j.t = "arr" THEN [i \in 1..Len(j.a) |-> DigitsOf(i - 1)]
    ELSE << >>

\* a point for a day whichever sides are present: a missing side counts as 0
PointsOfZeroFilled(from, to, date, rFrom, rTo) ==
    IF rFrom.t = "num" /\ rTo.t = "num"
    THEN << Point(date, Div(rTo.n, rFrom.n)) >>
    ELSE << Point(date, Num(0)) >>

\* lines 431-435 and 466-471: the point of a day, if both sides are numbers
PointsOf(from, to, date, rFrom, rTo) ==
    IF rFrom.t = "num" /\ rTo.t = "num"
    THEN << Point(date, Div(rTo.n, rFrom.n)) >>
    ELSE << >>

RECURSIVE BatchPoints(_, _, _, _)
BatchPoints(from, to, buckets, dates) ==
    IF dates = << >> THEN << >>
    ELSE LET day == Get(buckets, dates[1])
             rFrom == IF from = USD THEN JNum(Num(1)) ELSE Get(day, from)
             rTo == IF to = USD THEN JNum(Num(1)) ELSE Get(day, to)
         IN PointsOf(from, to, dates[1], rFrom, rTo)
            \o BatchPoints(from, to, buckets, Tail(dates))

\* lines 420-436: the series of the timeseries payload
BatchSeries(from, to, json) ==
    LET buckets == FirstDefined(<< Get(json, kRates), Get(Get(json, kData), kRates),
                                   Get(Get(json, kResponse), kRates), JObj(<< >>) >>)
        dates == SortBy(CompareCodeUnits, KeysOf(buckets))
    IN BatchPoints(from, to, buckets, dates)

\* lines 456-474: the point of one historical request, none when it fails
DayPoints(from, to, day, resp) ==
    IF resp.kind # "ok" THEN << >>
    ELSE LET rates == parseRates(resp.body)
             rFrom == IF from = USD THEN JNum(Num(1)) ELSE Get(rates, from)
             rTo == IF to = USD THEN JNum(Num(1)) ELSE Get(rates, to)
         IN PointsOf(from, to, day, rFrom, rTo)

\* the try block of the timeseries request without its catch
TryTimeseriesNoCatch(from, to, resp) ==
    IF resp.kind = "ok"
    THEN [err |-> NoError, series |-> BatchSeries(from, to, resp.body)]
    ELSE [err |-> GetError("timeseries", resp), series |-> << >>]

\* lines 412-442: the try block of the timeseries request; its catch lets
\* no error out
TryTimeseries(from, to, resp) ==
    IF resp.kind = "ok"
    THEN [err |-> NoError, series |-> BatchSeries(from, to, resp.body)]
    ELSE [err |-> NoError, series |-> << >>]

\* lines 456-474: the try block of one day; its catch lets no error out
TryHistorical(from, to, day, resp) ==
    [err |-> NoError, points |-> DayPoints(from, to, day, resp)]

HistoricalRequest(from, to, day) ==
    Request("historical",
            JObj(<< Prop(kBase, JStr(USD)), Prop(kDate, JStr(day)),
                    Prop(kSymbols, JStr(from \o << "," >> \o to)) >>))

SeriesSides == {USD, << "e", "u", "r", " " >>, GBP}

DateInputs == {DateStr(n) : n \in 0..MaxDay}

DayRates(eur, gbp) == JObj(<< Prop(EUR, JNum(eur)), Prop(GBP, JNum(gbp)) >>)

TimeseriesBodies ==
    { JObj(<< Prop(kRates,
                   JObj(<< Prop(DateStr(1), DayRates(Norm(9, 10), Norm(4, 5))),
                           Prop(DateStr(0), DayRates(Norm(1, 2), Norm(3, 4))) >>)) >>),
      JObj(<< Prop(kResponse,
                   JObj(<< Prop(kRates,
                                JObj(<< Prop(DateStr(0), DayRates(Norm(9, 10), Norm(4, 5))),
                                        Prop(DateStr(1),
                                             JObj(<< Prop(EUR, JNum(Num(2))) >>)) >>)) >>)) >>),
      JObj(<< Prop(kData, JObj(<< Prop(kRates, JObj(<< >>)) >>)) >>) }

TimeseriesResponses == {Ok(b) : b \in TimeseriesBodies} \cup Failures

HistoricalBodies ==
    { JObj(<< Prop(kRates, DayRates(Norm(9, 10), Norm(4, 5))) >>),
      JObj(<< Prop(kResponse,
                   JObj(<< Prop(kRates,
                                JObj(<< Prop(<< "e", "u", "r" >>, JNum(Num(2))) >>)) >>)) >>) }

HistoricalResponses == {Ok(b) : b \in HistoricalBodies} \cup Failures

IdleSeries ==
    [pc |-> "idle", from |-> << >>, to |-> << >>, days |-> << >>, idx |-> 0,
     results |-> << >>, reqs |-> << >>, batch |-> "none", ret |-> << >>,
     err |-> NoError]

\* lines 402-418: the parameters are normalized, the timeseries request issued
GetTimeseries(fromRaw, toRaw, start, end) ==
    /\ ts.pc = "idle"
    /\ LET from == NormalizeSide(fromRaw)
           to == NormalizeSide(toRaw)
       IN ts' = [IdleSeries EXCEPT
                   !.pc = "timeseries", !.from = from, !.to = to,
                   !.days = << start, end >>,
                   !.reqs = << Request("timeseries",
                                 JObj(<< Prop(kBase, JStr(USD)),
                                         Prop(kStartDate, JStr(start)),
                                         Prop(kEndDate, JStr(end)),
                                         Prop(kSymbols,
                                              JStr(from \o << "," >> \o to)) >>)) >>]
    /\ UNCHANGED << curVars, convVars, tz, normVars, uiVars, netVars >>

\* lines 454-478 between two awaits: the next historical request, or the
\* return of the sorted results
Continue(call) ==
    IF call.idx > Len(call.days)
    THEN [call EXCEPT !.pc = "done", !.ret = SortBy(CompareByDate, call.results)]
    ELSE [call EXCEPT !.pc = "historical",
            !.reqs = Append(@, HistoricalRequest(call.from, call.to,
                                                 call.days[call.idx]))]

\* the timeseries request settles and its series is never used
TimeseriesSettlesAlwaysFallsBack(resp) ==
    /\ ts.pc = "timeseries"
    /\ ts' = Continue([ts EXCEPT !.batch = resp.kind, !.idx = 1,
                         !.days = DaysOf(tz, ts.days[1], ts.days[2])])
    /\ UNCHANGED << curVars, convVars, tz, normVars, uiVars, netVars >>

\* lines 413-457: the timeseries request settles
TimeseriesSettles(resp) ==
    /\ ts.pc = "timeseries"
    /\ LET try == TryTimeseries(ts.from, ts.to, resp)
       IN ts' = IF try.err # NoError
                THEN [ts EXCEPT !.pc = "failed", !.batch = resp.kind, !.err = try.err]
                ELSE IF try.series # << >>
                THEN [ts EXCEPT !.pc = "done", !.batch = resp.kind, !.days = << >>,
                                !.ret = try.series]
                ELSE Continue([ts EXCEPT !.batch = resp.kind, !.idx = 1,
                                 !.days = DaysOf(tz, ts.days[1], ts.days[2])])
    /\ UNCHANGED << curVars, convVars, tz, normVars, uiVars, netVars >>

\* lines 457-478: a historical request settles
HistoricalSettles(resp) ==
    /\ ts.pc = "historical"
    /\ LET try == TryHistorical(ts.from, ts.to, ts.days[ts.idx], resp)
       IN ts' = IF try.err # NoError
                THEN [ts EXCEPT !.pc = "failed", !.err = try.err]
                ELSE Continue([ts EXCEPT !.results = @ \o try.points,
                                         !.idx = @ + 1])
    /\ UNCHANGED << curVars, convVars, tz, normVars, uiVars, netVars >>

(***************************************************************************)
(* The normalizers applied to payloads of every supported shape.           *)
(***************************************************************************)
IdleNorm == [fn |-> "none", raw |-> Undef, type |-> << >>, out |-> Undef]

\* an array of objects: a lower-case code, a code under `code`, a code of
\* two letters, and the first code again under another name
ArrayOfObjects ==
    JArr(<< JObj(<< Prop(kShortCode, JStr(<< "u", "s", "d" >>)),
                    Prop(kName, JStr(<< "D", "o", "l", "l", "a", "r" >>)) >>),
            JObj(<< Prop(kCode, JStr(EUR)),
                    Prop(kCurrencyName, JStr(<< "E", "u", "r", "o" >>)) >>),
            JObj(<< Prop(kShortCode, JStr(<< "U", "S" >>)),
                    Prop(kName, JStr(<< "B", "a", "d" >>)) >>),
            JObj(<< Prop(kShortCode, JStr(<< "u", "s", "d" >>)),
                    Prop(kName, JStr(<< "B", "u", "c", "k" >>)) >>) >>)

\* an array with a null item, a ticker and a bare currency field
ArrayOfTickers ==
    JArr(<< JObj(<< Prop(kTicker, JStr(USDT)),
                    Prop(kLabel, JStr(<< "T", "e", "t", "h", "e", "r" >>)),
                    Prop(kSign, JStr(<< "T" >>)) >>),
            JNull,
            JObj(<< Prop(kCurrency, JStr(CHF)) >>) >>)

\* a code-keyed object of strings, one key in lower case
ObjectOfStrings ==
    JObj(<< Prop(EUR, JStr(<< "E", "u", "r", "o", " ", "B" >>)),
            Prop(<< "u", "s", "d" >>, JStr(<< "l", "o", "w", "e", "r" >>)),
            Prop(GBP, JStr(<< "P", "o", "u", "n", "d" >>)) >>)

\* a code-keyed object of objects: the code from the key, from a field, from
\* neither, and an entry without a name
ObjectOfObjects ==
    JObj(<< Prop(GBP, JObj(<< Prop(kName, JStr(<< "S", "t", "e", "r", "l", "i", "n", "g" >>)) >>)),
            Prop(<< "1" >>, JObj(<< Prop(kCode, JStr(<< "e", "u", "r" >>)),
                                    Prop(kName, JStr(<< "E", "u", "r", "o", " ", "C" >>)),
                                    Prop(kSymbol, JStr(<< "E" >>)) >>)),
            Prop(<< "X", "X" >>, JObj(<< Prop(kName, JStr(<< "n" >>)) >>)),
            Prop(JPY, JObj(<< >>)) >>)

\* an array whose elements have an empty field: an empty short_code before a
\* code, an empty name, and a null short_code and name before a code
ArrayOfEmptyFields ==
    JArr(<< JObj(<< Prop(kShortCode, JStr(<< >>)), Prop(kCode, JStr(CAD)),
                    Prop(kName, JStr(<< "L", "o", "o", "n", "i", "e" >>)) >>),
            JObj(<< Prop(kCode, JStr(JPY)), Prop(kName, JStr(<< >>)) >>),
            JObj(<< Prop(kShortCode, JNull), Prop(kCode, JStr(CHF)),
                    Prop(kName, JNull) >>) >>)

Collections ==
    {ArrayOfObjects, ArrayOfTickers, ArrayOfEmptyFields, ObjectOfStrings, ObjectOfObjects}

\* the properties of an object that are there
Present(props) == SelectSeq(props, LAMBDA q : q.v # Undef)

\* collections at response.currencies, currencies and data.fiat, any of
\* them absent
MixedPayload(a, b, c) ==
    JObj(Present(<< Prop(kResponse,
                         IF a = Undef THEN Undef
                         ELSE JObj(<< Prop(kCurrencies, a) >>)),
                    Prop(kCurrencies, b),
                    Prop(kData,
                         IF c = Undef THEN Undef ELSE JObj(<< Prop(kFiat, c) >>)) >>))

CurrencyPayloads ==
    { MixedPayload(a, b, c) : a \in Collections \cup {Undef},
                              b \in Collections \cup {Undef},
                              c \in Collections \cup {Undef} }
    \cup { JObj(<< Prop(kResponse, JObj(<< Prop(kCrypto, a) >>)) >>) : a \in Collections }
    \cup { JObj(<< Prop(kData, JObj(<< Prop(kCurrencies, a) >>)) >>) : a \in Collections }
    \cup { JObj(<< Prop(kResponse, a) >>) : a \in Collections }
    \cup Collections

kEur == << "e", "u", "r" >>

\* rate maps: finite numbers, a key in lower case, a string, a null, an
\* infinite number (1e999), a zero, a negative number, keys that differ in
\* case only
RateMaps ==
    { JObj(<< Prop(EUR, JNum(Norm(9, 10))), Prop(<< "g", "b", "p" >>, JNum(Norm(4, 5))),
              Prop(JPY, JStr(<< "1" >>)), Prop(CHF, JNull) >>),
      JObj(<< Prop(EUR, JNum(Infinity)), Prop(GBP, JNum(Num(0))),
              Prop(CAD, JNum(Num(-2))) >>),
      JObj(<< Prop(kEur, JNum(Num(1))), Prop(USD, JNum(Num(1))),
              Prop(EUR, JNum(Num(2))) >>),
      JObj(<< >>),
      JArr(<< JNum(Num(3)), JStr(<< "x" >>) >>) }

\* what can stand where a rate map is expected
RateValues ==
    RateMaps \cup {Undef, JNull, JNum(Num(0)), JStr(<< "a", "b" >>), JBool(TRUE)}

RatePayloads ==
    { JObj(Present(<< Prop(kRates, a),
                      Prop(kResponse,
                           IF b = Undef THEN Undef ELSE JObj(<< Prop(kRates, b) >>)) >>)) :
        a \in RateValues, b \in RateMaps \cup {Undef} }
    \cup {Undef, JNull, JNum(Num(1)), JStr(<< "a" >>), JArr(<< >>)}

\* parseRates(json) is applied, once
ParseRates(json) ==
    /\ norm = IdleNorm
    /\ norm' = [fn |-> "parseRates", raw |-> json, type |-> << >>,
                out |-> parseRates(json)]
    /\ UNCHANGED << curVars, convVars, tsVars, uiVars, netVars >>

\* parseCurrenciesJSON(raw, type) is applied, once
ParseCurrencies(raw, type) ==
    /\ norm = IdleNorm
    /\ norm' = [fn |-> "parseCurrenciesJSON", raw |-> raw, type |-> type,
                out |-> JArr(parseCurrenciesJSON(raw, type))]
    /\ UNCHANGED << curVars, convVars, tsVars, uiVars, netVars >>

(***************************************************************************)
(* The user interface: useDebounced and the App component.                 *)
(***************************************************************************)
\* delay, in units of time
DelayUnits == 3

\* the changes of the input that the model follows
MaxChanges == 3

\* the component before it is mounted; age is the time for which value has
\* been the input, counted up to the delay
IdleDeb ==
    [pc |-> "unmounted", value |-> Num(0), debounced |-> Num(0), timers |-> {},
     timerId |-> 0, issued |-> 0, age |-> 0, changes |-> 0]

\* setTimeout(() => setDebounced(value), delay), without a cleanup of the
\* run before
EffectWithoutCleanup(d, value) ==
    [d EXCEPT !.timers = @ \cup {[id |-> d.issued + 1, value |-> value,
                                  left |-> DelayUnits]},
              !.timerId = d.issued + 1,
              !.issued = @ + 1]

\* the effect of useDebounced for a new value: the cleanup of the run before,
\* clearTimeout(timerId), then setTimeout(() => setDebounced(value), delay)
Effect(d, value) ==
    [d EXCEPT !.timers = {t \in @ : t.id # d.timerId}
                           \cup {[id |-> d.issued + 1, value |-> value,
                                  left |-> DelayUnits]},
              !.timerId = d.issued + 1,
              !.issued = @ + 1]

\* the first render: useState(value), then the effect
DebMount(value) ==
    /\ deb.pc = "unmounted"
    /\ deb' = Effect([deb EXCEPT !.pc = "mounted", !.value = value,
                                 !.debounced = value], value)
    /\ UNCHANGED << curVars, convVars, tsVars, normVars, app, netVars >>

\* a render with another value: the dependency [value, delay] has changed
DebChange(value) ==
    /\ deb.pc = "mounted"
    /\ deb.changes < MaxChanges
    /\ value # deb.value
    /\ deb' = Effect([deb EXCEPT !.value = value, !.age = 0, !.changes = @ + 1],
                     value)
    /\ UNCHANGED << curVars, convVars, tsVars, normVars, app, netVars >>

\* a unit of time passes; a timer that is due may fire late
DebTick ==
    /\ deb.pc = "mounted"
    /\ deb.age < DelayUnits \/ \E t \in deb.timers : t.left > 0
    /\ deb' = [deb EXCEPT
                 !.age = IF @ < DelayUnits THEN @ + 1 ELSE @,
                 !.timers = {[t EXCEPT !.left = IF @ > 0 THEN @ - 1 ELSE 0] : t \in @}]
    /\ UNCHANGED << curVars, convVars, tsVars, normVars, app, netVars >>

\* a timer fires: setDebounced(value) of the effect run that set it
DebFire(id) ==
    /\ deb.pc = "mounted"
    /\ \E t \in deb.timers :
          /\ t.id = id
          /\ t.left = 0
          /\ deb' = [deb EXCEPT !.debounced = t.value, !.timers = @ \ {t}]
    /\ UNCHANGED << curVars, convVars, tsVars, normVars, app, netVars >>

\* the effect runs of the App that the model follows
MaxRuns == 3

\* the runs of the historical effect that the model follows
MaxChartRuns == 2

\* the range of the chart, in days: the initial one and another
RangeDays == {30, 7}

\* App before it is mounted; converted, rate and errConv start as null, the
\* chart with 30 days and no points
IdleApp ==
    [pc |-> "unmounted", fromCode |-> USD, toCode |-> EUR, debouncedAmount |-> Num(1),
     converted |-> JNull, rate |-> JNull, errConv |-> JNull, loadingConv |-> FALSE,
     runs |-> 0, calls |-> << >>,
     rangeDays |-> 30, series |-> << >>, loadingSeries |-> FALSE,
     chartRuns |-> 0, charts |-> << >>]

\* the codes App may hold, the empty one of a cleared field included
FromCodes == {USD, GBP, << >>}

ToCodes == {EUR, GBP}

DebouncedAmounts == {Num(0), Num(1), Num(2)}

AppConvertResponses ==
    { Ok(JObj(<< Prop(kResult, JNum(Num(3))) >>)),
      [kind |-> "http", status |-> 500, body |-> Undef] }

AppRatesResponses ==
    { Ok(JObj(<< Prop(kRates, JObj(<< Prop(EUR, JNum(Norm(9, 10))),
                                      Prop(GBP, JNum(Norm(4, 5))) >>)) >>)),
      Ok(JObj(<< >>)),
      [kind |-> "network", status |-> 0, body |-> Undef] }

\* e?.message || 'Conversion failed.': every error of convertOnce has a
\* message, which names its kind and endpoint
MessageOf(err) == JStr(<< err.kind, err.endpoint >>)

\* the convertOnce call of an effect run, with the run's `cancelled`
AppCall(a) ==
    [run |-> a.runs, from |-> a.fromCode, to |-> a.toCode,
     amount |-> a.debouncedAmount, cancelled |-> FALSE, stage |-> "convert",
     reqs |-> 1, err |-> NoError, ret |-> NoResponse]

\* the cleanup of the last effect run: cancelled = true
Cleanup(a) ==
    [a EXCEPT !.calls = [i \in 1..Len(a.calls) |->
                            IF a.calls[i].run = a.runs
                            THEN [a.calls[i] EXCEPT !.cancelled = TRUE]
                            ELSE a.calls[i]]]

\* the body of the convert effect up to its await
RunEffect(a) ==
    LET b == [a EXCEPT !.runs = @ + 1]
    IN IF \/ ~NumTruthy(b.debouncedAmount)
          \/ Less(b.debouncedAmount, Num(0))
          \/ b.fromCode = << >>
          \/ b.toCode = << >>
       THEN [b EXCEPT !.converted = JNull, !.rate = JNull]
       ELSE [b EXCEPT !.loadingConv = TRUE, !.errConv = JNull,
                      !.calls = Append(@, AppCall(b))]

\* the effect's continuation after the await, whatever `cancelled` is
SettledUnguarded(a, i, r) ==
    LET b == [a EXCEPT !.calls[i].stage = "settled", !.calls[i].err = r.err,
                       !.calls[i].ret = r.ret]
    IN IF r.err = NoError
       THEN [b EXCEPT !.converted = JNum(r.ret.result),
                      !.rate = IF ~Nullish(r.ret.rate) THEN r.ret.rate
                               ELSE IF NumTruthy(a.calls[i].amount)
                               THEN JNum(Div(r.ret.result, a.calls[i].amount))
                               ELSE JNull,
                      !.loadingConv = FALSE]
       ELSE [b EXCEPT !.errConv = MessageOf(r.err), !.converted = JNull,
                      !.rate = JNull, !.loadingConv = FALSE]

\* the effect's continuation after the await: try, catch and finally, each
\* under if (!cancelled)
Settled(a, i, r) ==
    IF a.calls[i].cancelled
    THEN [a EXCEPT !.calls[i].stage = "settled", !.calls[i].err = r.err,
                   !.calls[i].ret = r.ret]
    ELSE SettledUnguarded(a, i, r)

\* what getTimeseries resolves with: no point, or a point
SeriesResults == {<< >>, << Point(DateStr(0), Norm(9, 10)) >>}

\* the getTimeseries call of a run of the historical effect, with the run's
\* `cancelled`
ChartCall(a) ==
    [run |-> a.chartRuns, from |-> a.fromCode, to |-> a.toCode,
     range |-> a.rangeDays, cancelled |-> FALSE, stage |-> "timeseries"]

\* the cleanup of the last run of the historical effect: cancelled = true
ChartCleanup(a) ==
    [a EXCEPT !.charts = [i \in 1..Len(a.charts) |->
                             IF a.charts[i].run = a.chartRuns
                             THEN [a.charts[i] EXCEPT !.cancelled = TRUE]
                             ELSE a.charts[i]]]

\* the body of the historical effect up to its await
RunChartEffect(a) ==
    LET b == [a EXCEPT !.chartRuns = @ + 1]
    IN [b EXCEPT !.loadingSeries = TRUE, !.charts = Append(@, ChartCall(b))]

\* the historical effect's continuation after the await
ChartSettled(a, i, pts) ==
    IF a.charts[i].cancelled
    THEN [a EXCEPT !.charts[i].stage = "settled"]
    ELSE [a EXCEPT !.charts[i].stage = "settled", !.series = pts,
                   !.loadingSeries = FALSE]

\* App is mounted: the convert effect and the historical effect run for the
\* initial state
Mount ==
    /\ app.pc = "unmounted"
    /\ app' = RunChartEffect(RunEffect([app EXCEPT !.pc = "mounted"]))
    /\ UNCHANGED << curVars, convVars, tsVars, normVars, deb, netVars >>

\* a dependency of the convert effect changes: cleanup, then the effect; the
\* same for the historical effect when the change is one of a code
DepsChange(from, to, amount) ==
    /\ app.pc = "mounted"
    /\ app.runs < MaxRuns
    /\ << from, to >> # << app.fromCode, app.toCode >> => app.chartRuns < MaxChartRuns
    /\ << from, to, amount >> # << app.fromCode, app.toCode, app.debouncedAmount >>
    /\ LET a == RunEffect([Cleanup(app) EXCEPT !.fromCode = from, !.toCode = to,
                                               !.debouncedAmount = amount])
       IN app' = IF << from, to >> # << app.fromCode, app.toCode >>
                 THEN RunChartEffect(ChartCleanup(a))
                 ELSE a
    /\ UNCHANGED << curVars, convVars, tsVars, normVars, deb, netVars >>

\* setFromCode
SetFromCode(from) == DepsChange(from, app.toCode, app.debouncedAmount)

\* setToCode
SetToCode(to) == DepsChange(app.fromCode, to, app.debouncedAmount)

\* useDebounced gives a new amount
SetDebouncedAmount(amount) == DepsChange(app.fromCode, app.toCode, amount)

\* setRangeDays: cleanup of the historical effect, then the effect
SetRangeDays(n) ==
    /\ app.pc = "mounted"
    /\ app.chartRuns < MaxChartRuns
    /\ n # app.rangeDays
    /\ app' = RunChartEffect([ChartCleanup(app) EXCEPT !.rangeDays = n])
    /\ UNCHANGED << curVars, convVars, tsVars, normVars, deb, netVars >>

\* the getTimeseries call of chart call i settles
ChartSettles(i, pts) ==
    /\ app.pc = "mounted"
    /\ i \in 1..Len(app.charts)
    /\ app.charts[i].stage = "timeseries"
    /\ app' = ChartSettled(app, i, pts)
    /\ UNCHANGED << curVars, convVars, tsVars, normVars, deb, netVars >>

\* the convert request of call i settles
AppConvertSettles(i, resp) ==
    /\ app.pc = "mounted"
    /\ i \in 1..Len(app.calls)
    /\ app.calls[i].stage = "convert"
    /\ LET r == PrimaryResult(app.calls[i].amount, resp)
       IN app' = IF r.fallback
                 THEN [app EXCEPT !.calls[i].stage = "latest", !.calls[i].reqs = 2]
                 ELSE Settled(app, i, r)
    /\ UNCHANGED << curVars, convVars, tsVars, normVars, deb, netVars >>

\* the latest request of call i settles
AppRatesSettle(i, resp) ==
    /\ app.pc = "mounted"
    /\ i \in 1..Len(app.calls)
    /\ app.calls[i].stage = "latest"
    /\ app' = Settled(app, i, convertViaUSD(app.calls[i].from, app.calls[i].to,
                                            app.calls[i].amount, resp))
    /\ UNCHANGED << curVars, convVars, tsVars, normVars, deb, netVars >>

(***************************************************************************)
(* The transport get as a state machine: fetch, then the reads of the body *)
(* of the response.  A body can be read once: json() uses it even when the *)
(* text is not JSON, and a second read rejects.                            *)
(***************************************************************************)
\* .slice(0, 200) of the text of the error body
MsgMax == 200

Endpoints ==
    { << "c", "o", "n", "v", "e", "r", "t" >>, kCurrencies,
      << "l", "a", "t", "e", "s", "t" >>,
      << "t", "i", "m", "e", "s", "e", "r", "i", "e", "s" >>,
      << "h", "i", "s", "t", "o", "r", "i", "c", "a", "l" >> }

kMessage == << "m", "e", "s", "s", "a", "g", "e" >>

kError == << "e", "r", "r", "o", "r" >>

\* a body whose text is not JSON
Raw(s) == [k |-> "raw", s |-> s]

LongText == [i \in 1..(MsgMax + 1) |-> "x"]

\* bodies: JSON with a message, an error, both, an empty message before an
\* error, a number as message, neither, null; text of 9, 0 and 201 characters
ResponseBodies ==
    { Text(JObj(<< Prop(kMessage, JStr(<< "b", "a", "d" >>)) >>)),
      Text(JObj(<< Prop(kError, JStr(<< "l", "i", "m", "i", "t" >>)) >>)),
      Text(JObj(<< Prop(kMessage, JStr(<< "m" >>)), Prop(kError, JStr(<< "e" >>)) >>)),
      Text(JObj(<< Prop(kMessage, JStr(<< >>)), Prop(kError, JStr(<< "e" >>)) >>)),
      Text(JObj(<< Prop(kMessage, JNum(Num(7))) >>)),
      Text(JObj(<< Prop(kRates, JObj(<< >>)) >>)),
      Text(JNull),
      Raw(<< "N", "o", "t", " ", "F", "o", "u", "n", "d" >>),
      Raw(<< >>),
      Raw(LongText) }

Statuses == {200, 404, 500}

\* what fetch resolves with (success is res.ok), and its rejection
HttpResponse(status, body) ==
    [kind |-> "http", success |-> status \in 200..299, status |-> status, body |-> body]

FetchRejects == [kind |-> "network", success |-> FALSE, status |-> 0, body |-> Raw(<< >>)]

FetchOutcomes ==
    {HttpResponse(st, b) : st \in Statuses, b \in ResponseBodies} \cup {FetchRejects}

\* what a call throws
NoThrow == [name |-> "none", message |-> << >>]

Thrown(name, message) == [name |-> name, message |-> message]

FetchFailed == Thrown("TypeError", << "F", "a", "i", "l", "e", "d", " ", "t", "o", " ", "f", "e", "t", "c", "h" >>)

NotJson == Thrown("SyntaxError", << "U", "n", "e", "x", "p", "e", "c", "t", "e", "d" >>)

\* a || b
Or(a, b) == IF Truthy(a) THEN a ELSE b

\* s.slice(0, n)
Slice(s, n) == SubSeq(s, 1, IF Len(s) < n THEN Len(s) ELSE n)

\* j?.message || j?.error || ''
MessageField(j) == Or(Or(Get(j, kMessage), Get(j, kError)), JStr(<< >>))

\* res.text().catch(() => ''): the text of a body not yet read
TextOrEmpty(body, bodyUsed) ==
    IF bodyUsed THEN << >>
    ELSE IF body.k = "raw" THEN body.s ELSE << >>

\* `HTTP ${res.status} on ${endpoint}${msg ? ': ' + msg : ''}`
HttpMessage(status, endpoint, msg) ==
    << "H", "T", "T", "P", " " >> \o DigitsOf(status) \o << " ", "o", "n", " " >>
        \o endpoint \o (IF Truthy(msg) THEN << ":", " " >> \o StringOf(msg) ELSE << >>)

IdleNet ==
    [pc |-> "idle", endpoint |-> << >>, res |-> FetchRejects, bodyUsed |-> FALSE,
     ret |-> Undef, err |-> NoThrow]

\* lines 51-53: get(endpoint, params) up to await fetch
get(endpoint) ==
    /\ net = IdleNet
    /\ net' = [net EXCEPT !.pc = "fetch", !.endpoint = endpoint]
    /\ UNCHANGED << curVars, convVars, tsVars, normVars, uiVars >>

\* line 53: fetch settles; its rejection is the rejection of get
FetchSettles(res) ==
    /\ net.pc = "fetch"
    /\ net' = IF res.kind = "network"
              THEN [net EXCEPT !.pc = "done", !.err = FetchFailed]
              ELSE [net EXCEPT !.pc = "json", !.res = res]
    /\ UNCHANGED << curVars, convVars, tsVars, normVars, uiVars >>

\* lines 58-59 and 65: res.json() settles, having read the body
JsonSettles ==
    /\ net.pc = "json"
    /\ LET body == net.res.body
           read == [net EXCEPT !.bodyUsed = TRUE]
       IN net' =
            IF net.res.success
            THEN (IF body.k = "json" THEN [read EXCEPT !.pc = "done", !.ret = body.doc]
                  ELSE [read EXCEPT !.pc = "done", !.err = NotJson])
            ELSE (IF body.k = "json"
                  THEN [read EXCEPT !.pc = "done",
                          !.err = Thrown("Error",
                                     HttpMessage(net.res.status, net.endpoint,
                                                 MessageField(body.doc)))]
                  ELSE [read EXCEPT !.pc = "text"])
    /\ UNCHANGED << curVars, convVars, tsVars, normVars, uiVars >>

\* lines 60-63: res.text() settles in the catch of res.json()
TextSettles ==
    /\ net.pc = "text"
    /\ net' = [net EXCEPT !.pc = "done",
                  !.err = Thrown("Error",
                             HttpMessage(net.res.status, net.endpoint,
                                 JStr(Slice(TextOrEmpty(net.res.body, net.bodyUsed),
                                            MsgMax))))]
    /\ UNCHANGED << curVars, convVars, tsVars, normVars, uiVars >>

(***************************************************************************)
(* The specifications: one for each exported function.                     *)
(***************************************************************************)
TsIdle == ts = IdleSeries /\ tz \in {z \in TimeZones : z.name = "UTC"}

NormIdle == norm = IdleNorm

UiIdle == deb = IdleDeb /\ app = IdleApp /\ net = IdleNet

InitCur == CurInit /\ conv = IdleConv /\ TsIdle /\ NormIdle /\ UiIdle

NextCur ==
    \/ \E d \in TickSteps : Tick(d)
    \/ \E c \in Calls, type \in Categories : GetCurrencies(c, type)
    \/ \E c \in Calls, resp \in CurrenciesResponses : CurrenciesSettles(c, resp)
    \/ \E c \in Calls, resp \in LatestResponses : LatestSettles(c, resp)

SpecCur == InitCur /\ [][NextCur]_vars

InitConv == CurIdle /\ conv = IdleConv /\ TsIdle /\ NormIdle /\ UiIdle

NextConv ==
    \/ \E f \in SideInputs, t \in SideInputs, a \in AmountInputs : ConvertOnce(f, t, a)
    \/ \E resp \in ConvertResponses : ConvertSettles(resp)
    \/ \E resp \in RatesResponses : RatesSettle(resp)

SpecConv == InitConv /\ [][NextConv]_vars

InitSeries ==
    /\ CurIdle
    /\ conv = IdleConv
    /\ ts = IdleSeries
    /\ tz \in TimeZones
    /\ NormIdle
    /\ UiIdle

NextSeries ==
    \/ \E f \in SeriesSides, t \in SeriesSides, s \in DateInputs, e \in DateInputs :
          GetTimeseries(f, t, s, e)
    \/ \E resp \in TimeseriesResponses : TimeseriesSettles(resp)
    \/ \E resp \in HistoricalResponses : HistoricalSettles(resp)

SpecSeries == InitSeries /\ [][NextSeries]_vars

\* every request get has issued settles: fetch resolves or rejects
SeriesRequestsSettle ==
    /\ WF_vars(\E resp \in TimeseriesResponses : TimeseriesSettles(resp))
    /\ WF_vars(\E resp \in HistoricalResponses : HistoricalSettles(resp))

SpecSeriesLive == SpecSeries /\ SeriesRequestsSettle

InitNorm == CurIdle /\ conv = IdleConv /\ TsIdle /\ NormIdle /\ UiIdle

NextNorm ==
    \/ \E raw \in CurrencyPayloads, type \in Categories : ParseCurrencies(raw, type)
    \/ \E json \in RatePayloads : ParseRates(json)

SpecNorm == InitNorm /\ [][NextNorm]_vars

InitApp == CurIdle /\ conv = IdleConv /\ TsIdle /\ NormIdle /\ UiIdle

NextApp ==
    \/ Mount
    \/ \E from \in FromCodes : SetFromCode(from)
    \/ \E to \in ToCodes : SetToCode(to)
    \/ \E amount \in DebouncedAmounts : SetDebouncedAmount(amount)
    \/ \E i \in 1..MaxRuns, resp \in AppConvertResponses : AppConvertSettles(i, resp)
    \/ \E i \in 1..MaxRuns, resp \in AppRatesResponses : AppRatesSettle(i, resp)
    \/ \E n \in RangeDays : SetRangeDays(n)
    \/ \E i \in 1..MaxChartRuns, pts \in SeriesResults : ChartSettles(i, pts)

SpecApp == InitApp /\ [][NextApp]_vars

InitGet == CurIdle /\ conv = IdleConv /\ TsIdle /\ NormIdle /\ UiIdle

NextGet ==
    \/ \E endpoint \in Endpoints : get(endpoint)
    \/ \E res \in FetchOutcomes : FetchSettles(res)
    \/ JsonSettles
    \/ TextSettles

SpecGet == InitGet /\ [][NextGet]_vars

InitDeb == CurIdle /\ conv = IdleConv /\ TsIdle /\ NormIdle /\ UiIdle

NextDeb ==
    \/ \E value \in DebouncedAmounts : DebMount(value)
    \/ \E value \in DebouncedAmounts : DebChange(value)
    \/ DebTick
    \/ \E id \in 1..(MaxChanges + 1) : DebFire(id)

\* time passes, and a timer that is due fires
TimersFire ==
    /\ WF_vars(DebTick)
    /\ WF_vars(\E id \in 1..(MaxChanges + 1) : DebFire(id))

SpecDeb == InitDeb /\ [][NextDeb]_vars /\ TimersFire

(***************************************************************************)
(* Properties of getTimeseries.                                            *)
(***************************************************************************)
StrictlyAscending(points) ==
    \A i \in 1..Len(points), j \in 1..Len(points) :
        i < j => CompareCodeUnits(points[i].date, points[j].date) < 0

\* C10: the array getTimeseries returns is sorted by date, strictly
\* ascending, with no date twice.
C10_AsStated == ts.pc = "done" => StrictlyAscending(ts.ret)

\* C10, where the local days are all 24 hours long, or the series is the one
\* of the timeseries request: the returned array is strictly ascending.
C10_NoClockChange ==
    (ts.pc = "done" /\ (~tz.dst \/ Len(ts.reqs) = 1)) => StrictlyAscending(ts.ret)

\* a series of the day-by-day path with more than one point has been returned
C10_Witness ==
    /\ ts.pc = "done"
    /\ Len(ts.reqs) > 2
    /\ Len(ts.ret) > 1
    /\ StrictlyAscending(ts.ret)

\* json?.rates ?? json?.data?.rates ?? json?.response?.rates ?? {}
BucketsOf(json) ==
    IF ~Nullish(Get(json, kRates)) THEN Get(json, kRates)
    ELSE IF ~Nullish(Get(Get(json, kData), kRates)) THEN Get(Get(json, kData), kRates)
    ELSE IF ~Nullish(Get(Get(json, kResponse), kRates))
         THEN Get(Get(json, kResponse), kRates)
    ELSE JObj(<< >>)

BothSides(rates, from, to) ==
    SideRate(rates, from).t = "num" /\ SideRate(rates, to).t = "num"

CrossRate(rates, from, to) == Div(SideRate(rates, to).n, SideRate(rates, from).n)

PointsAt(points, date) == {i \in 1..Len(points) : points[i].date = date}

\* the series of the timeseries payload holds one point for each date whose
\* day has both sides, with its cross rate, and nothing else
BatchEmits(series, json, from, to) ==
    LET buckets == BucketsOf(json)
    IN /\ \A i \in 1..Len(series) :
             \E k \in 1..Len(KeysOf(buckets)) : KeysOf(buckets)[k] = series[i].date
       /\ \A k \in 1..Len(KeysOf(buckets)) :
             LET d == KeysOf(buckets)[k]
                 day == Get(buckets, d)
             IN IF BothSides(day, from, to)
                THEN /\ Cardinality(PointsAt(series, d)) = 1
                     /\ \A i \in PointsAt(series, d) :
                           series[i].rate = CrossRate(day, from, to)
                ELSE PointsAt(series, d) = {}

\* C11: in both paths a point is emitted for a date exactly when both sides
\* resolve to a number for that date (a USD side is 1), with the cross rate
\* of that date; a date missing a side gets no point, neither a zero nor a
\* substituted rate.  On the timeseries path the sides are read from the
\* day's bucket, on the day-by-day path from the normalized rate map of the
\* day's historical response; a day whose request fails resolves nothing.
C11_PointIffBothSides ==
    [][ /\ \A resp \in TimeseriesResponses :
              (TimeseriesSettles(resp) /\ resp.kind = "ok" /\ ts'.batch = "ok"
                 /\ Len(ts'.reqs) = 1 /\ ts'.pc = "done")
                  => BatchEmits(ts'.ret, resp.body, ts.from, ts.to)
        /\ \A resp \in TimeseriesResponses :
              (TimeseriesSettles(resp) /\ resp.kind = "ok" /\ Len(ts'.reqs) > 1)
                  => BatchEmits(<< >>, resp.body, ts.from, ts.to)
        /\ \A resp \in HistoricalResponses :
              HistoricalSettles(resp)
                  => LET rates == IF resp.kind = "ok" THEN parseRates(resp.body)
                                  ELSE JObj(<< >>)
                         day == ts.days[ts.idx]
                     IN /\ ts'.results =
                              IF resp.kind = "ok" /\ BothSides(rates, ts.from, ts.to)
                              THEN Append(ts.results,
                                          Point(day, CrossRate(rates, ts.from, ts.to)))
                              ELSE ts.results
                        /\ ts'.pc = "done"
                              => /\ Len(ts'.ret) = Len(ts'.results)
                                 /\ \A i \in 1..Len(ts'.results) :
                                       \E j \in 1..Len(ts'.ret) :
                                           ts'.ret[j] = ts'.results[i]
      ]_vars

\* a timeseries payload of two dates, one of them without the target, has
\* given exactly the point of the complete date
C11_Witness ==
    /\ ts.pc = "done"
    /\ ts.batch = "ok"
    /\ Len(ts.reqs) = 1
    /\ ts.to = GBP
    /\ Len(ts.ret) = 1
    /\ ts.ret[1].date = DateStr(0)

\* the timeseries payload has a date with both sides
BatchHasPoint(resp, from, to) ==
    /\ resp.kind = "ok"
    /\ \E k \in 1..Len(KeysOf(BucketsOf(resp.body))) :
          BothSides(Get(BucketsOf(resp.body), KeysOf(BucketsOf(resp.body))[k]), from, to)

\* the start and end dates the call was given
StartOf(call) == Get(call.reqs[1].params, kStartDate).s

EndOf(call) == Get(call.reqs[1].params, kEndDate).s

\* in this step the first historical request is issued
FallbackStarts ==
    /\ Len(ts'.reqs) = 2
    /\ ts'.reqs[2].endpoint = "historical"
    /\ ts'.pc = "historical"

\* in this step the call returns without a historical request
ReturnsAfterTimeseries == ts'.pc = "done" /\ Len(ts'.reqs) = 1

\* C12 as stated: historical requests are issued exactly when the timeseries
\* request failed or gave no point; when it gave a point its series is
\* returned and no historical request is issued.
C12_AsStated ==
    [][ \A resp \in TimeseriesResponses :
          TimeseriesSettles(resp)
              => IF BatchHasPoint(resp, ts.from, ts.to)
                 THEN ReturnsAfterTimeseries /\ ts'.ret # << >>
                 ELSE FallbackStarts
      ]_vars

\* C12, for any range: historical requests are issued exactly when the
\* timeseries request failed or gave no point and start <= end; when the
\* timeseries request gave a point its series is returned and no historical
\* request is issued; when it gave none and start > end the call returns the
\* empty list without a historical request.
C12_FallbackOnlyAfterEmptyBatch ==
    [][ /\ \A resp \in TimeseriesResponses :
              TimeseriesSettles(resp)
                  => IF BatchHasPoint(resp, ts.from, ts.to)
                     THEN ReturnsAfterTimeseries /\ ts'.ret # << >>
                     ELSE IF CompareCodeUnits(StartOf(ts), EndOf(ts)) <= 0
                     THEN FallbackStarts
                     ELSE ReturnsAfterTimeseries /\ ts'.ret = << >>
        /\ Len(ts'.reqs) > Len(ts.reqs) /\ ts.reqs # << >>
              => ts.pc \in {"timeseries", "historical"} /\ ts.ret = << >>
      ]_vars

\* the timeseries request failed, start > end, and the call returned without
\* a historical request
C12_Witness ==
    /\ ts.pc = "done"
    /\ ts.batch \in {"http", "network"}
    /\ Len(ts.reqs) = 1
    /\ CompareCodeUnits(StartOf(ts), EndOf(ts)) > 0

\* C13: getTimeseries never surfaces an error: whichever of the timeseries
\* request and the historical requests fail, the call never ends with an
\* error, and once started it completes by returning a list, which is empty
\* when every request has failed.
C13_NeverFails ==
    /\ [](ts.pc # "failed" /\ ts.err = NoError)
    /\ [](ts.pc = "done" /\ ts.batch \in {"http", "network"} /\ ts.results = << >>
            => ts.ret = << >>)
    /\ [][ \A resp \in Failures :
              (TimeseriesSettles(resp) \/ HistoricalSettles(resp))
                  => ts'.pc \in {"historical", "done"} /\ ts'.results = ts.results
         ]_vars
    /\ (ts.pc \in {"timeseries", "historical"}) ~> (ts.pc = "done")

\* the timeseries request and every historical request of a range of several
\* days have failed, and the call has returned the empty list
C13_Witness ==
    /\ ts.pc = "done"
    /\ ts.err = NoError
    /\ ts.batch \in {"http", "network"}
    /\ Len(ts.reqs) > 2
    /\ ts.results = << >>
    /\ ts.ret = << >>

(***************************************************************************)
(* Properties of the normalizers.                                          *)
(***************************************************************************)
Parsed == norm.fn = "parseCurrenciesJSON"

\* the collections of a payload, for the category asked
Populated(raw, type) ==
    {i \in 1..5 : Sources(raw, type)[i].t \in {"arr", "obj"}}

\* C14: for every payload of the supported shapes, at any of the probed
\* locations or mixed across them, the list parseCurrenciesJSON returns has
\* at most one entry per code, only codes of three to five capital letters,
\* and is ordered by name and then by code.
C14_NormalizedList ==
    Parsed =>
        LET out == norm.out.a
        IN /\ \A i \in 1..Len(out), j \in 1..Len(out) :
                 i # j => CodeOf(out[i]) # CodeOf(out[j])
           /\ \A i \in 1..Len(out) :
                 /\ Len(CodeOf(out[i])) \in CodeMinLen..CodeMaxLen
                 /\ \A k \in 1..Len(CodeOf(out[i])) : CodeOf(out[i])[k] \in UpperLetters
           /\ \A i \in 1..Len(out), j \in 1..Len(out) :
                 i < j =>
                    \/ LocaleCompare(NameOf(out[i]), NameOf(out[j])) < 0
                    \/ /\ LocaleCompare(NameOf(out[i]), NameOf(out[j])) = 0
                       /\ LocaleCompare(CodeOf(out[i]), CodeOf(out[j])) < 0

\* a payload with collections of different shapes at three locations, codes
\* repeated among them and candidates rejected, has given a list of four
C14_Witness ==
    /\ Parsed
    /\ norm.raw = MixedPayload(ArrayOfObjects, ObjectOfStrings, ObjectOfObjects)
    /\ norm.type = kFiat
    /\ Len(norm.out.a) = 4

RatesParsed == norm.fn = "parseRates"

\* json?.rates ?? json?.response?.rates
RatesOf(json) ==
    IF Get(json, kRates).t \notin {"undef", "null"} THEN Get(json, kRates)
    ELSE Get(Get(json, kResponse), kRates)

\* the entries of the rates object, none if there is no rates object
RateEntries(json) ==
    IF RatesOf(json).t \in {"obj", "arr"} THEN Entries(RatesOf(json)) ELSE << >>

\* the entries whose value is a finite number
FiniteEntries(json) ==
    {i \in 1..Len(RateEntries(json)) :
        /\ RateEntries(json)[i].v.t = "num"
        /\ RateEntries(json)[i].v.n.d # 0}

\* C15 as stated: parseRates fails for no input; it keeps exactly the
\* entries whose value is a finite number, each under its uppercased key, and
\* returns the empty mapping when no rates object is found.
C15_AsStated ==
    RatesParsed =>
        /\ norm.out.t = "obj"
        /\ Len(norm.out.o) = Cardinality(FiniteEntries(norm.raw))
        /\ \A i \in FiniteEntries(norm.raw) :
              Get(norm.out, ToUpperCase(RateEntries(norm.raw)[i].k))
                  = RateEntries(norm.raw)[i].v

\* C15, with keys that differ in case only: parseRates fails for no input;
\* the keys of its result are the uppercased keys of the entries whose value
\* is a finite number, each once, with the value of the last such entry of
\* that uppercased key; the result is empty when no rates object is found.
C15_FiniteRatesLastWins ==
    RatesParsed =>
        LET e == RateEntries(norm.raw)
            kept == FiniteEntries(norm.raw)
            upper == {ToUpperCase(e[i].k) : i \in kept}
        IN /\ norm.out.t = "obj"
           /\ Len(norm.out.o) = Cardinality(upper)
           /\ {norm.out.o[i].k : i \in 1..Len(norm.out.o)} = upper
           /\ \A i \in kept :
                 (\A j \in kept : j > i => ToUpperCase(e[j].k) # ToUpperCase(e[i].k))
                     => Get(norm.out, ToUpperCase(e[i].k)) = e[i].v

\* a rate map with eur and EUR has been normalized: one EUR entry, with the
\* later value
C15_Witness ==
    /\ RatesParsed
    /\ Cardinality(FiniteEntries(norm.raw)) = 3
    /\ Len(norm.out.o) = 2
    /\ Get(norm.out, EUR) = JNum(Num(2))

(***************************************************************************)
(* Properties of the App component.                                        *)
(***************************************************************************)
\* what App displays of a conversion
Display(a) == << a.converted, a.rate, a.errConv, a.loadingConv >>

\* in this step call i settles
Settles(i) ==
    /\ i \in 1..Len(app.calls)
    /\ app.calls[i].stage # "settled"
    /\ app'.calls[i].stage = "settled"

\* call i is the call of the last effect run, started for the parameters App
\* has now
IsCurrent(a, i) ==
    /\ a.calls[i].run = a.runs
    /\ a.calls[i].from = a.fromCode
    /\ a.calls[i].to = a.toCode
    /\ a.calls[i].amount = a.debouncedAmount

\* C16: whatever the changes of from, to and amount and the order in which
\* the convertOnce calls settle, a call that settles changes what App
\* displays only if it is the call of the current parameters, and then
\* displays its result or its error; a superseded call settles without any
\* effect on the display; and superseding a call aborts no request: a call's
\* requests go on until they settle, the fallback's latest request included.
C16_OnlyCurrentCallUpdates ==
    [][ /\ \A i \in 1..MaxRuns :
              Settles(i) =>
                 IF IsCurrent(app, i)
                 THEN /\ app'.loadingConv = FALSE
                      /\ IF app'.calls[i].err = NoError
                         THEN /\ app'.converted = JNum(app'.calls[i].ret.result)
                              /\ app'.errConv = app.errConv
                         ELSE /\ app'.errConv # JNull
                              /\ app'.converted = JNull
                              /\ app'.rate = JNull
                 ELSE Display(app') = Display(app)
        /\ \A i \in 1..Len(app.calls) :
              app'.runs # app.runs
                  => /\ app'.calls[i].stage = app.calls[i].stage
                     /\ app'.calls[i].reqs = app.calls[i].reqs
        /\ \A i \in 1..Len(app.calls), resp \in Failures :
              (AppConvertSettles(i, resp) /\ ~IsCurrent(app, i))
                  => app'.calls[i].stage = "latest" /\ app'.calls[i].reqs = 2
      ]_vars

\* a superseded call has settled with a result while the call of the current
\* parameters is in flight, and App displays nothing of it
C16_Witness ==
    /\ Len(app.calls) >= 2
    /\ app.calls[1].stage = "settled"
    /\ app.calls[1].err = NoError
    /\ app.calls[1].cancelled
    /\ app.calls[Len(app.calls)].run = app.runs
    /\ app.calls[Len(app.calls)].stage # "settled"
    /\ app.converted = JNull
    /\ app.loadingConv

(***************************************************************************)
(* Properties of useDebounced.                                             *)
(***************************************************************************)
\* C17: the value useDebounced returns changes only to a value that has been
\* the input, without change, for the delay; a change of the input cancels
\* the pending timer; at most one timer is pending at any time; and once the
\* input stops changing, the returned value eventually equals the latest
\* input and stays so.
C17_Debounced ==
    /\ [](Cardinality(deb.timers) <= 1)
    /\ [][ /\ deb'.debounced # deb.debounced /\ deb.pc = "mounted"
              => /\ deb'.debounced = deb.value
                 /\ deb'.value = deb.value
                 /\ deb.age >= DelayUnits
           /\ deb'.value # deb.value /\ deb.pc = "mounted"
              => /\ deb.timers \cap deb'.timers = {}
                 /\ \A t \in deb'.timers :
                       t.value = deb'.value /\ t.left = DelayUnits
         ]_vars
    /\ <>[](deb.pc = "mounted" => deb.debounced = deb.value)

\* the input has changed while a timer was pending, and after it stopped
\* changing the returned value has become the latest input
C17_Witness ==
    /\ deb.pc = "mounted"
    /\ deb.changes >= 2
    /\ deb.issued > deb.changes
    /\ deb.timers = {}
    /\ deb.age >= DelayUnits
    /\ deb.debounced = deb.value
    /\ deb.value # Num(0)

(***************************************************************************)
(* Properties of the day-by-day path of getTimeseries.                     *)
(***************************************************************************)
\* the number of the day a date names
DayIndex(date) == CHOOSE n \in KnownDays : DateStr(n) = date

\* the calendar days from start to end, both included, in ascending order
CalendarDays(start, end) ==
    [i \in 1..(DayIndex(end) - DayIndex(start) + 1) |-> DateStr(DayIndex(start) + i - 1)]

\* the dates of the historical requests issued so far, in the order of issue
RequestedDays(call) ==
    [i \in 1..(Len(call.reqs) - 1) |-> Get(call.reqs[i + 1].params, kDate).s]

\* the call went the day-by-day path
WentDayByDay(call) == call.pc = "done" /\ ~(Len(call.reqs) = 1 /\ call.ret # << >>)

\* C19: on the day-by-day path exactly one historical request is issued for
\* each calendar day of [start, end], in ascending order of date, one at a
\* time; a day whose request fails or whose rates are incomplete is not
\* requested again and has no point in the result; start > end gives no
\* request and the empty result.
C19_AsStated ==
    /\ ts.pc = "historical"
          => /\ Len(ts.reqs) = ts.idx + 1
             /\ ts.reqs[Len(ts.reqs)].endpoint = "historical"
    /\ WentDayByDay(ts)
          => /\ RequestedDays(ts) = CalendarDays(StartOf(ts), EndOf(ts))
             /\ \A i \in 1..Len(ts.ret) :
                   \E k \in 1..Len(RequestedDays(ts)) : RequestedDays(ts)[k] = ts.ret[i].date
             /\ Len(ts.ret) <= Len(RequestedDays(ts))
             /\ CompareCodeUnits(StartOf(ts), EndOf(ts)) > 0
                   => Len(ts.reqs) = 1 /\ ts.ret = << >>

\* C19 where the local days are all 24 hours long: the days requested are
\* the calendar days of [start, end], each once, in ascending order.
C19_NoClockChange == ~tz.dst => C19_AsStated

\* the day-by-day path has requested each day of a range of three days once
C19_Witness ==
    /\ WentDayByDay(ts)
    /\ Len(ts.reqs) = 4
    /\ RequestedDays(ts) = CalendarDays(StartOf(ts), EndOf(ts))

(***************************************************************************)
(* Properties of the accumulation of parseCurrenciesJSON.                  *)
(***************************************************************************)
\* the accepted candidates of one source, in the order of its elements
RECURSIVE CandidatesOf(_, _)
CandidatesOf(source, i) ==
    CASE source.t = "arr" /\ i <= Len(source.a) ->
             ScanItem(<< >>, source.a[i]) \o CandidatesOf(source, i + 1)
      [] source.t = "obj" /\ i <= Len(source.o) ->
             ScanEntry(<< >>, source.o[i].k, source.o[i].v) \o CandidatesOf(source, i + 1)
      [] OTHER -> << >>

\* the accepted candidates of the seven locations, in the order of the scan
AllCandidates(raw, type) ==
    CandidatesOf(Sources(raw, type)[1], 1) \o CandidatesOf(Sources(raw, type)[2], 1)
    \o CandidatesOf(Sources(raw, type)[3], 1) \o CandidatesOf(Sources(raw, type)[4], 1)
    \o CandidatesOf(Sources(raw, type)[5], 1) \o CandidatesOf(Sources(raw, type)[6], 1)
    \o CandidatesOf(Sources(raw, type)[7], 1)

\* C20: parseCurrenciesJSON scans all seven locations, not only the first
\* that yields entries, and a later accepted candidate replaces an earlier
\* one of the same code: the codes of the result are the codes of all the
\* accepted candidates, and the entry of a code is the last candidate of that
\* code in the order of the scan.
C20_LastWriteWins ==
    Parsed =>
        LET cands == AllCandidates(norm.raw, norm.type)
            out == norm.out.a
        IN /\ {CodeOf(out[i]) : i \in 1..Len(out)}
                 = {CodeOf(cands[k]) : k \in 1..Len(cands)}
           /\ \A i \in 1..Len(out) :
                 \E k \in 1..Len(cands) :
                    /\ cands[k] = out[i]
                    /\ \A m \in (k + 1)..Len(cands) : CodeOf(cands[m]) # CodeOf(out[i])

\* three locations have yielded EUR under three names and the first of them
\* USD twice: the result has the EUR of the last location and the USD of the
\* last position
C20_Witness ==
    /\ Parsed
    /\ norm.raw = MixedPayload(ArrayOfObjects, ObjectOfStrings, ObjectOfObjects)
    /\ \E i \in 1..Len(norm.out.a) :
          /\ CodeOf(norm.out.a[i]) = EUR
          /\ NameOf(norm.out.a[i]) = << "E", "u", "r", "o", " ", "C" >>
    /\ \E i \in 1..Len(norm.out.a) :
          /\ CodeOf(norm.out.a[i]) = USD
          /\ NameOf(norm.out.a[i]) = << "B", "u", "c", "k" >>

(***************************************************************************)
(* Properties of the extraction of code and name from an array element.    *)
(***************************************************************************)
\* a field that is there and is not the empty string
NonEmpty(j) == ~Nullish(j) /\ j # JStr(<< >>)

\* the first non-empty of the values, undefined when there is none
RECURSIVE FirstNonEmpty(_)
FirstNonEmpty(vals) ==
    IF vals = << >> THEN Undef
    ELSE IF NonEmpty(vals[1]) THEN vals[1]
    ELSE FirstNonEmpty(Tail(vals))

\* the elements of the locations that are arrays, a null element being {}
ArrayElements(raw, type) ==
    UNION { {Coalesce(Sources(raw, type)[k].a[i], JObj(<< >>)) :
                i \in 1..Len(Sources(raw, type)[k].a)} :
            k \in {k \in 1..7 : Sources(raw, type)[k].t = "arr"} }

\* the code of the first non-empty code field of the element, normalized
StatedCode(item) == normalizeCode(FirstNonEmpty(CodeFields(item)))

\* the element has a field that is the empty string
HasEmptyField(item) ==
    \E i \in 1..Len(item.o) : item.o[i].v = JStr(<< >>)

\* C21: every array element whose first non-empty code field holds a valid
\* code yields an entry of that code, whatever its earlier code fields and
\* its name fields hold (an empty earlier field is skipped, an empty name
\* defaults to the code).
C21_AsStated ==
    Parsed =>
        \A item \in ArrayElements(norm.raw, norm.type) :
            IsCode(StatedCode(item)) =>
                \E i \in 1..Len(norm.out.a) : CodeOf(norm.out.a[i]) = StatedCode(item)

\* the same holds of the elements without an empty field: a missing or null
\* field is skipped, and a missing or null name defaults to the code
C21_NoEmptyField ==
    Parsed =>
        \A item \in ArrayElements(norm.raw, norm.type) :
            IsCode(StatedCode(item)) /\ ~HasEmptyField(item) =>
                \E i \in 1..Len(norm.out.a) : CodeOf(norm.out.a[i]) = StatedCode(item)

\* the array with the empty fields has been normalized: of its three valid
\* codes only the one behind null fields is in the result, under its code
C21_Witness ==
    /\ Parsed
    /\ norm.raw = ArrayOfEmptyFields
    /\ Len(norm.out.a) = 1
    /\ CodeOf(norm.out.a[1]) = CHF
    /\ NameOf(norm.out.a[1]) = CHF

(***************************************************************************)
(* Properties of concurrent getCurrencies calls.                           *)
(***************************************************************************)
\* the call has completed after a miss of the cache
MissedAndDone(call) == call.pc = "done" /\ ~call.hit

\* C22: of two getCurrencies calls of one category that both miss the cache,
\* the one that returns second finds the other returned without an error
\* with the list it wrote, returns without an error the list it computed,
\* and leaves its own entry in the store; once both have returned the store
\* is not written again, so it holds the entry of the call that wrote last.
C22_LaterWriteWins ==
    [][\A c \in Calls, d \in Calls :
          /\ c # d /\ cur[c].type = cur[d].type /\ MissedAndDone(cur[d])
             /\ cur[c].pc \in {"currencies", "latest"} /\ cur'[c].pc = "done"
             => /\ cur[d].err = NoError /\ cur'[d] = cur[d]
                /\ SameJson(Get(cur[d].wrote, kItems), cur[d].ret)
                /\ cur'[c].err = NoError
                /\ cur'[c].ret = JArr(cur'[c].list)
                /\ SameJson(Get(cur'[c].wrote, kItems), cur'[c].ret)
                /\ store'[cur[c].type] = Text(cur'[c].wrote)
          /\ c # d /\ cur[c].pc = "done" /\ cur[d].pc = "done" => store' = store
      ]_vars

\* two calls of one category have both missed the cache and written
\* different lists, and the store holds the entry of the later write
C22_Witness ==
    \E c \in Calls, d \in Calls :
        /\ c # d /\ cur[c].type = cur[d].type
        /\ MissedAndDone(cur[c]) /\ MissedAndDone(cur[d])
        /\ cur[c].err = NoError /\ cur[d].err = NoError
        /\ cur[c].ret # cur[d].ret
        /\ cur[d].wroteAt < cur[c].wroteAt
        /\ store[cur[c].type] = Text(cur[c].wrote)
        /\ store[cur[c].type] # Text(cur[d].wrote)

(***************************************************************************)
(* Properties of the values of a rate map.                                 *)
(***************************************************************************)
\* a positive finite number
PositiveFinite(j) == j.t = "num" /\ IsFinite(j.n) /\ j.n.n > 0

\* the rate map that the fallback of convertOnce has returned as meta.rates
RatesUsed == Get(conv.ret.meta, kRates)

\* C23: every value of the rate map that parseRates has produced for the
\* fallback of convertOnce is a positive finite number, and so is the rate of
\* the source currency, the divisor of the cross-rate.
C23_AsStated ==
    Returned /\ ViaFallback =>
        /\ \A i \in 1..Len(RatesUsed.o) : PositiveFinite(RatesUsed.o[i].v)
        /\ PositiveFinite(SideRate(RatesUsed, conv.from))

\* every value of that rate map is a finite number, of any sign
C23_FiniteRates ==
    Returned /\ ViaFallback =>
        \A i \in 1..Len(RatesUsed.o) :
            RatesUsed.o[i].v.t = "num" /\ IsFinite(RatesUsed.o[i].v.n)

\* EUR was converted to USD by the fallback with EUR at 0: the rate map
\* holds the zero and the rate returned is 1 / 0
C23_Witness ==
    /\ Returned
    /\ ViaFallback
    /\ conv.from = EUR
    /\ conv.to = USD
    /\ Get(RatesUsed, EUR) = JNum(Num(0))
    /\ conv.ret.rate = JNum(Infinity)

(***************************************************************************)
(* Properties of the errors of get.                                        *)
(***************************************************************************)
\* the call has failed on a non-success status or on a network failure
GetFailed == net.pc = "done" /\ net.err # NoThrow /\ ~net.res.success

\* "HTTP <status> on <endpoint>", then ": <msg>" unless msg is empty
StatedMessage(msg) ==
    HttpMessage(net.res.status, net.endpoint, JStr(msg))

\* the message or error field of a JSON error body, as text
StatedField(doc) == StringOf(MessageField(doc))

\* C24: every failure of get is an Error whose message names the HTTP status
\* and the endpoint; the rest of the message is the message or error field of
\* the JSON error body, and the first 200 characters of the text of an error
\* body that is not JSON.
C24_AsStated ==
    GetFailed =>
        /\ net.err.name = "Error"
        /\ net.res.kind = "http" /\ net.res.body.k = "json"
              => net.err.message = StatedMessage(StatedField(net.res.body.doc))
        /\ net.res.kind = "http" /\ net.res.body.k = "raw"
              => net.err.message = StatedMessage(Slice(net.res.body.s, MsgMax))

\* the part about the JSON error body holds: on a non-success status whose
\* body is JSON the error names the status, the endpoint and the field
C24_JsonErrorBody ==
    GetFailed /\ net.res.kind = "http" /\ net.res.body.k = "json" =>
        /\ net.err.name = "Error"
        /\ net.err.message = StatedMessage(StatedField(net.res.body.doc))

\* a 404 whose body is the text "Not Found" has failed with a message that
\* ends at the endpoint
C24_Witness ==
    /\ GetFailed
    /\ net.res.status = 404
    /\ net.res.body = Raw(<< "N", "o", "t", " ", "F", "o", "u", "n", "d" >>)
    /\ net.bodyUsed
    /\ net.err = Thrown("Error", HttpMessage(404, net.endpoint, JStr(<< >>)))

\* the network has failed and get has rejected with the error of fetch
C24_NetworkWitness ==
    /\ GetFailed
    /\ net.res.kind = "network"
    /\ net.err = FetchFailed

(***************************************************************************)
(* Properties of the records that getCurrencies reads and writes.          *)
(***************************************************************************)
\* C25: a getCurrencies call reads and writes the record of its own category
\* only: whether it is served from the cache, and with what, depends on the
\* record of its category alone; no step of the call changes the record of
\* the other category; and the step that reads the cache, a hit included,
\* leaves the whole store as it is.
C25_OwnRecordOnly ==
    [][\A c \in Calls :
          /\ Starts(c) =>
                LET chk == CacheCheck(store[cur'[c].type], now)
                IN /\ cur'[c].hit = chk.hit
                   /\ chk.hit => cur'[c].pc = "done" /\ cur'[c].ret = chk.items
                   /\ store' = store
          /\ cur'[c] # cur[c] =>
                \A t \in Categories \ {cur'[c].type} : store'[t] = store[t]
      ]_vars

\* a call of each category has missed the cache and written, and the store
\* holds the entry of each under its own category
C25_Witness ==
    \E c \in Calls, d \in Calls :
        /\ cur[c].type = kFiat /\ cur[d].type = kCrypto
        /\ MissedAndDone(cur[c]) /\ MissedAndDone(cur[d])
        /\ cur[c].wrote # cur[d].wrote
        /\ store[kFiat] = Text(cur[c].wrote)
        /\ store[kCrypto] = Text(cur[d].wrote)

\* a call of fiat was served from the cache while the store held an entry
\* that a call of crypto had written
C25_HitWitness ==
    \E c \in Calls, d \in Calls :
        /\ cur[c].type = kFiat /\ cur[c].pc = "done" /\ cur[c].hit
        /\ cur[d].type = kCrypto /\ MissedAndDone(cur[d])
        /\ store[kCrypto] = Text(cur[d].wrote)
        /\ IsEntry(store[kFiat])

(***************************************************************************)
(* Properties of the loading flags of App.                                 *)
(***************************************************************************)
\* a convertOnce call for the parameters App has now is in flight
ConvertInFlight(a) ==
    \E i \in 1..Len(a.calls) : IsCurrent(a, i) /\ a.calls[i].stage # "settled"

\* a getTimeseries call for the parameters App has now is in flight
ChartInFlight(a) ==
    \E i \in 1..Len(a.charts) :
        /\ a.charts[i].run = a.chartRuns
        /\ a.charts[i].stage # "settled"

\* C26: whatever the changes of the parameters and the order of the
\* settlements, loadingConv is false when no convertOnce call for the current
\* parameters is in flight, and loadingSeries is false when no getTimeseries
\* call for the current parameters is in flight.
C26_AsStated ==
    app.pc = "mounted" =>
        /\ ~ConvertInFlight(app) => ~app.loadingConv
        /\ ~ChartInFlight(app) => ~app.loadingSeries

\* the part about the chart holds
C26_ChartLoading ==
    app.pc = "mounted" => (app.loadingSeries <=> ChartInFlight(app))

\* the part about the conversion holds while the parameters pass the test of
\* the convert effect
C26_ValidParameters ==
    /\ app.pc = "mounted"
    /\ NumTruthy(app.debouncedAmount)
    /\ app.fromCode # << >>
    => (app.loadingConv <=> ConvertInFlight(app))

\* the amount was changed to 0 while a conversion was in flight; every call
\* has settled and loadingConv is still true
C26_Witness ==
    /\ app.pc = "mounted"
    /\ app.debouncedAmount = Num(0)
    /\ Len(app.calls) >= 1
    /\ \A i \in 1..Len(app.calls) : app.calls[i].stage = "settled"
    /\ app.loadingConv
    /\ ~app.loadingSeries

====
